---- MODULE Spec2Model ----
(***************************************************************************)
(* Streaming transcription server of Indic_ASR (app/api/asr_router.py):    *)
(* the connection registry, the shared language, the per-connection        *)
(* handler transcribe_audio_stream and ConnectionManager.broadcast, as     *)
(* tasks of one cooperative event loop.  One action is the code a task     *)
(* runs between two suspension points (await).  The contents of a          *)
(* session's byte buffer and their conversion to a waveform are a second   *)
(* specification, BufferSpec, over short byte strings.  DiarizerSpec is    *)
(* one StreamingDiarizer (app/services/diarization.py) and the calls of    *)
(* its method process.  AlignSpec is one call of                           *)
(* add_text_to_diarization_segments (app/services/alignment.py).           *)
(* TranscriberSpec is the calls of IndicConformerASR.transcribe_tensor      *)
(* (app/services/load_model.py).  QuerySpec is the server with sessions    *)
(* opened with a language query parameter.  ClientSpec is one              *)
(* IndicWSSTTService (app/services/pipecat_wrapper.py), the client of the  *)
(* server in a Pipecat pipeline.                                           *)
(***************************************************************************)
EXTENDS Integers, Sequences, FiniteSets, TLC

\* ------------------------------------------------------------ bounds
\* connections that may be opened, inbound frames handled in all, and
\* transports that clients close
NumConns == 3
MaxMsgs == 2
MaxCloses == 1
\* BufferSpec: binary frames appended in all, and bytes in a frame
MaxAppends == 2
MaxChunkBytes == 2
\* DiarizerSpec: the samples the rolling window holds (expected_samples, from
\* the pipeline's configuration) and the calls of process
WindowCapacity == 3
MaxCalls == 3
\* AlignSpec: the lengths of the word list and of the turn list
MaxWords == 2
MaxTurns == 2
\* TranscriberSpec: the calls of transcribe_tensor
MaxTranscribes == 3
\* ClientSpec: messages the server sends to the client, and frames the
\* pipeline hands to process_frame
MaxServerMsgs == 3
MaxFrames == 4

Conns == 1..NumConns
\* no connection
NoConn == NumConns + 1

\* ------------------------------------------------- program constants
BUFFER_THRESHOLD == 64000
SampleWidth == 2
\* Config.SAMPLING_RATE
SAMPLING_RATE == 16000

None == "None"
Raise == "raise"

\* Language(str, Enum): the values of the enumeration
LanguageValues == {"hi", "ne", "mai"}
\* GlobalAppState.__init__: Language.hindi
InitialLanguage == "hi"

\* ------------------------------------------------------------ inputs
\* byte lengths of the inbound binary frames
ChunkSizes == {32000, 64000, 64001}
\* what self.model(audio_tensor, language_id) does: raise, or return
\* None, an empty text or a text
ModelOutputs == {Raise, None, "", "namaste", "dhanyabad"}
\* the JSON document an inbound text frame carries; a key an object
\* lacks is None, as dict.get returns it
TextFrames ==
    { [json |-> "malformed", type |-> None, language |-> None],
      [json |-> "array", type |-> None, language |-> None],
      [json |-> "object", type |-> "ping", language |-> None],
      [json |-> "object", type |-> "config", language |-> "xx"],
      [json |-> "object", type |-> "config", language |-> "ne"],
      [json |-> "object", type |-> "config", language |-> "mai"] }
NoText == [json |-> "none", type |-> None, language |-> None]
\* what a send on a closed transport, or a receive on one, raises
TransportErrors == {"WebSocketDisconnect", "Exception"}

\* --------------------------------------------------- outbound frames
\* (as if the config frame always carried the initial language)
ConfigFrameInitial(lang) == [type |-> "config", language |-> InitialLanguage]
ConfigFrame(lang) == [type |-> "config", language |-> lang]
TranscriptionFrame(text, lang) ==
    [type |-> "transcription", text |-> text, language |-> lang,
     source |-> "stream"]
ErrorFrame(msg) == [type |-> "error", message |-> msg]
NoFrame == [type |-> "none"]

VARIABLES
    active_connections,  \* manager.active_connections: a list
    current_language,    \* app_state.current_language
    asr_loaded,          \* model_container holds "asr"
    pc,                  \* where each connection's handler task stands
    audio_buffer,        \* len(audio_buffer) of each handler
    client_closed,       \* the client has closed the transport
    outbox,              \* the frames delivered to each client, in order
    bc,                  \* each task's call of manager.broadcast
    nmsgs,               \* inbound frames handled so far
    ev,                  \* the step taken last
    flushed              \* each task's transcription broadcasts that returned

vars == <<active_connections, current_language, asr_loaded, pc,
          audio_buffer, client_closed, outbox, bc, nmsgs, ev, flushed>>

\* the bytes of one session's audio_buffer (BufferSpec)
VARIABLES
    audio_bytes,         \* the contents of the bytearray
    chunks_in,           \* the frames appended since it was last emptied
    audio_np,            \* what the last conversion gave
    converted,           \* the contents the last conversion was given
    n_appends            \* frames appended so far

bufferVars == <<audio_bytes, chunks_in, audio_np, converted, n_appends>>

\* one StreamingDiarizer (DiarizerSpec)
VARIABLES
    pipeline,            \* self.pipeline: "ready", or None
    last_speaker,        \* self.last_speaker
    clock,               \* self.clock, a double
    window,              \* self.audio_buffer: None, or the rolling window
    ncalls,              \* calls of process so far
    lens,                \* the chunk lengths the clock was advanced by
    call,                \* the last call: its arguments and what it came to
    tail,                \* the last samples of the zeros and the chunks written
    focus                \* focus_segment of the last call, in sample periods

diarizerVars ==
    <<pipeline, last_speaker, clock, window, ncalls, lens, call, tail, focus>>

\* one call of add_text_to_diarization_segments (AlignSpec)
VARIABLES
    word_timestamps,     \* the argument word_timestamps
    diarization,         \* the argument diarization
    result               \* what the call returned, once it has

alignVars == <<word_timestamps, diarization, result>>

\* the calls of IndicConformerASR.transcribe_tensor (TranscriberSpec)
VARIABLES
    transcriptions       \* the calls so far: model output, language, outcome

transcriberVars == <<transcriptions>>

\* the language query parameter of each connection (QuerySpec)
VARIABLES
    query_language       \* the argument language of the handler: a code, or None

queryVars == <<query_language>>

\* one IndicWSSTTService, the client of the server (ClientSpec)
VARIABLES
    _websocket,          \* self._websocket: None, or the connection
    _receive_task,       \* self._receive_task: None, or the task
    _transcript_queue,   \* self._transcript_queue, oldest first
    connection,          \* the connection: "none", "open" or "closed"
    task_state,          \* the task: "none", "running", "finished" (returned),
                         \* "failed" (ended with an exception) or "cancelled"
    wire,                \* the messages the server sent, not yet received
    received,            \* the messages received, in order
    downstream,          \* the frames pushed with push_frame, in order
    pf,                  \* the call of process_frame under way
    nserver,             \* messages the server sent so far
    nframes,             \* calls of process_frame so far
    teardown             \* the calls of _disconnect: how many, and the last

clientVars ==
    <<_websocket, _receive_task, _transcript_queue, connection, task_state,
      wire, received, downstream, pf, nserver, nframes, teardown>>

\* the variables of the other specifications, which the handlers of the
\* router leave alone
others ==
    <<bufferVars, diarizerVars, alignVars, transcriberVars, queryVars, clientVars>>
\* the same without the query parameters
components == <<bufferVars, diarizerVars, alignVars, transcriberVars, clientVars>>
\* the variables the steps of BufferSpec leave alone
exceptBuffer ==
    <<vars, diarizerVars, alignVars, transcriberVars, queryVars, clientVars>>
\* the variables the steps of DiarizerSpec leave alone
exceptDiarizer ==
    <<vars, bufferVars, alignVars, transcriberVars, queryVars, clientVars>>
\* the variables the step of AlignSpec leaves alone
exceptAlign ==
    <<vars, bufferVars, diarizerVars, transcriberVars, queryVars, clientVars>>
\* the variables the steps of TranscriberSpec leave alone
exceptTranscriber ==
    <<vars, bufferVars, diarizerVars, alignVars, queryVars, clientVars>>
\* the variables the steps of ClientSpec leave alone
exceptClient ==
    <<vars, bufferVars, diarizerVars, alignVars, transcriberVars, queryVars>>

\* ----------------------------------------------------------- helpers
Range(s) == {s[i] : i \in 1..Len(s)}

\* list.remove(x): drops the first occurrence
ListRemove(s, x) ==
    LET i == CHOOSE k \in 1..Len(s) :
                 s[k] = x /\ \A j \in 1..(k - 1) : s[j] # x
    IN  SubSeq(s, 1, i - 1) \o SubSeq(s, i + 1, Len(s))

\* the pc values of a handler whose websocket is open on the server side
Open == {"connected", "recv", "bcast"}

\* a send reaches the client: the server has not closed the websocket and
\* the client has not closed the transport; otherwise the send raises
CanSend(s, x) == s.pc[x] \in Open /\ ~client_closed[x]

Deliver(s, x, frame) == [s EXCEPT !.out[x] = Append(@, frame)]

\* the program state the handlers transform
Cur == [reg |-> active_connections, lang |-> current_language, pc |-> pc,
        buf |-> audio_buffer, out |-> outbox, bc |-> bc]

Apply(s) ==
    /\ active_connections' = s.reg
    /\ current_language' = s.lang
    /\ pc' = s.pc
    /\ audio_buffer' = s.buf
    /\ outbox' = s.out
    /\ bc' = s.bc

\* the step taken last: the action, its task, the text frame received, the
\* outcome of the conversion and inference of a binary frame, the language
\* passed to transcribe_tensor, the connection a broadcast tried to send to
Ev(op, c, frame, res, lang, to) ==
    [op |-> op, c |-> c, frame |-> frame, res |-> res, lang |-> lang,
     to |-> to]

\* ------------------------------------------------- ConnectionManager
\* ConnectionManager.connect, after accept
ManagerConnect(s, ws) == [s EXCEPT !.reg = Append(@, ws)]

\* ConnectionManager.disconnect
ManagerDisconnect(s, ws) ==
    IF ws \in Range(s.reg) THEN [s EXCEPT !.reg = ListRemove(@, ws)] ELSE s

NoBroadcast ==
    [payload |-> NoFrame, kind |-> "none", idx |-> 0, visited |-> <<>>,
     failed |-> {}, snapshot |-> <<>>, through |-> {}, status |-> "none"]

\* a call of broadcast: the list iterator stands before index idx;
\* visited, failed, snapshot and through record the call's history
NewBroadcast(s, payload, kind) ==
    [payload |-> payload, kind |-> kind, idx |-> 1, visited |-> <<>>,
     failed |-> {}, snapshot |-> s.reg, through |-> {},
     status |-> "running"]

\* (as if broadcast iterated a copy of the registry taken at its start)
IterSourceSnapshot(s, b) == b.snapshot
\* the list "for connection in self.active_connections" iterates:
\* the registry itself
IterSource(s, b) == s.reg

\* the connection the iterator yields next, if any
IterTarget(s, b) ==
    LET reg == IterSource(s, b)
    IN  IF b.idx <= Len(reg) THEN reg[b.idx] ELSE NoConn

\* (as if the exception of a send left broadcast)
BroadcastExceptReraise == "raise"
\* "except Exception: pass" around send_text
BroadcastExcept == "pass"

\* one pass of the loop of broadcast: the iterator's next, then send_text
BroadcastIter(s, b) ==
    LET x == IterTarget(s, b)
    IN  IF x = NoConn
        THEN [b EXCEPT !.status = "returned",
                       !.through = Range(b.snapshot) \cap Range(s.reg)]
        ELSE [b EXCEPT !.idx = @ + 1,
                       !.visited = Append(@, x),
                       !.failed = IF CanSend(s, x) THEN @ ELSE @ \cup {x},
                       !.status = IF CanSend(s, x) \/ BroadcastExcept = "pass"
                                  THEN "running" ELSE "raised"]

\* ------------------------------------------- transcribe_audio_stream
\* "except Exception" of the function: disconnect, re-raise
OuterExcept(s, t) ==
    [ManagerDisconnect(s, t) EXCEPT !.pc[t] = "raised"]

\* an exception reaching the receive loop's except clauses
LoopExcept(s, t, exc) ==
    IF exc = "WebSocketDisconnect"
    THEN [ManagerDisconnect(s, t) EXCEPT !.pc[t] = "done"]
    ELSE IF CanSend(s, t)
         THEN [Deliver(s, t, ErrorFrame("Internal processing error"))
                  EXCEPT !.pc[t] = "done"]
         ELSE OuterExcept(s, t)

\* (as if the language of the query were made the shared language)
ConnectLanguagePin(s, language) ==
    IF language # None THEN [s EXCEPT !.lang = language] ELSE s
\* what the handler does with its argument language: it never reads it
ConnectLanguage(s, language) == s

\* websocket.close(code=1011, reason="ASR Model not loaded")
CLOSE_UNAVAILABLE == "close 1011"
\* (as if the handler went on to the loop without a model)
AfterCheckLoop(s, t, loaded) == [s EXCEPT !.pc[t] = "recv"]
\* if not asr_model: close, return; otherwise on to the receive loop
AfterCheck(s, t, loaded) == [s EXCEPT !.pc[t] = IF loaded THEN "recv" ELSE "done"]

ResetBuffer(s, t) == [s EXCEPT !.buf[t] = 0, !.pc[t] = "recv"]

\* (as if the buffer were emptied inside the try block only)
InferenceExceptKeepBuffer(s, t, exc) ==
    IF CanSend(s, t)
    THEN [Deliver(s, t, ErrorFrame("Inference failed")) EXCEPT !.pc[t] = "recv"]
    ELSE LoopExcept(s, t, exc)

\* "except Exception" around transcribe_tensor and the broadcast, then
\* audio_buffer = bytearray()
InferenceExcept(s, t, exc) ==
    IF CanSend(s, t)
    THEN ResetBuffer(Deliver(s, t, ErrorFrame("Inference failed")), t)
    ELSE LoopExcept(s, t, exc)

\* (as if the exception were logged only, like a JSONDecodeError)
ConfigExceptSilent(s, t, exc) == [s EXCEPT !.pc[t] = "recv"]
\* "except Exception" around the handling of a text frame
ConfigExcept(s, t, exc) ==
    IF CanSend(s, t)
    THEN [Deliver(s, t, ErrorFrame("Invalid config data"))
             EXCEPT !.pc[t] = "recv"]
    ELSE LoopExcept(s, t, exc)

\* the handler's code after its call of broadcast has returned
AfterBroadcast(s, t, kind) ==
    IF kind = "flush" THEN ResetBuffer(s, t) ELSE [s EXCEPT !.pc[t] = "recv"]

\* (as if broadcast removed the connection a send to which failed)
AfterSendFailureRemove(s, x) == ManagerDisconnect(s, x)
\* the registry after a send to x has raised: "pass" leaves it alone
AfterSendFailure(s, x) == s

\* (as if each send serialised the message anew, with the language of the
\* moment)
SendPayloadCurrent(s, b) ==
    IF b.payload.type = "transcription"
    THEN [b.payload EXCEPT !.language = s.lang]
    ELSE b.payload
\* payload = json.dumps(message), once, before the loop: what every
\* send_text of the call sends
SendPayload(s, b) == b.payload

\* the call of broadcast b by t, from where it stands to its next
\* suspension in send_text or to its return
RunBroadcast(s, t, b, exc) ==
    LET x  == IterTarget(s, b)
        b1 == BroadcastIter(s, b)
        s0 == IF x = NoConn THEN s
              ELSE IF CanSend(s, x) THEN Deliver(s, x, SendPayload(s, b))
              ELSE AfterSendFailure(s, x)
        s1 == [s0 EXCEPT !.bc[t] = b1]
    IN  CASE b1.status = "running" -> [s1 EXCEPT !.pc[t] = "bcast"]
          [] b1.status = "returned" -> AfterBroadcast(s1, t, b.kind)
          [] OTHER -> IF b.kind = "flush"
                      THEN InferenceExcept(s1, t, exc)
                      ELSE ConfigExcept(s1, t, exc)

\* a failure of the model turned into an empty text
transcribe_tensor_swallow(out) ==
    IF out = Raise \/ out = None \/ out = "" THEN "" ELSE out
\* IndicConformerASR.transcribe_tensor on the model's output
transcribe_tensor(out) ==
    IF out = Raise THEN Raise
    ELSE IF out = None \/ out = "" THEN ""
    ELSE out

\* np.frombuffer(audio_buffer, dtype=np.int16) accepts the buffer
FromBufferOk(len) == len % SampleWidth = 0

\* the buffer has reached the threshold: conversion, inference, broadcast
Flush(s, t, out, exc) ==
    IF ~FromBufferOk(s.buf[t])
    THEN LoopExcept(s, t, "ValueError")
    ELSE LET r == transcribe_tensor(out)
         IN  IF r = Raise THEN InferenceExcept(s, t, exc)
             ELSE IF r = "" THEN ResetBuffer(s, t)
             ELSE RunBroadcast(s, t,
                      NewBroadcast(s, TranscriptionFrame(r, s.lang), "flush"),
                      exc)

\* what the handling of a binary frame that brings the buffer to len bytes
\* comes to: no flush yet, a failed conversion, or the result of inference
FlushResult(len, out) ==
    IF len < BUFFER_THRESHOLD THEN "buffered"
    ELSE IF ~FromBufferOk(len) THEN "ValueError"
    ELSE transcribe_tensor(out)

\* (as if the handlers appended to one buffer)
HandleBytesShared(s, t, n, out, exc) ==
    LET s1 == [s EXCEPT !.buf = [c \in Conns |-> @[c] + n]]
    IN  IF s1.buf[t] >= BUFFER_THRESHOLD THEN Flush(s1, t, out, exc) ELSE s1

\* a binary frame of n bytes
HandleBytes(s, t, n, out, exc) ==
    LET s1 == [s EXCEPT !.buf[t] = @ + n]
    IN  IF s1.buf[t] >= BUFFER_THRESHOLD THEN Flush(s1, t, out, exc) ELSE s1

\* (as if any language given were accepted)
LanguageValidAny(lang) == lang # None

\* new_lang in [l.value for l in Language]
LanguageValid(lang) == lang \in LanguageValues

\* a text frame
HandleText(s, t, f, exc) ==
    IF f.json = "malformed" THEN s
    ELSE IF f.json # "object" THEN ConfigExcept(s, t, exc)
    ELSE IF f.type = "config" /\ LanguageValid(f.language)
         THEN RunBroadcast([s EXCEPT !.lang = f.language], t,
                  NewBroadcast(s, ConfigFrame(f.language), "config"), exc)
         ELSE s

\* the history of t's transcription broadcasts, in the order they returned:
\* the frame of each and the connections registered during the whole call
LogFlush(s, t) ==
    IF s.bc[t] # bc[t] /\ s.bc[t].status = "returned" /\ s.bc[t].kind = "flush"
    THEN [flushed EXCEPT ![t] = Append(@, [payload |-> s.bc[t].payload,
                                           through |-> s.bc[t].through])]
    ELSE flushed

\* ------------------------------------ the bytes of the audio buffer
\* the values a byte of a frame takes
Bytes == {0, 127, 128, 255}

\* the binary frames: byte strings of 1 to MaxChunkBytes bytes
RECURSIVE ByteStrings(_)
ByteStrings(n) ==
    IF n = 0 THEN {<<>>}
    ELSE {Append(b, x) : b \in ByteStrings(n - 1), x \in Bytes}

Chunks == UNION {ByteStrings(n) : n \in 1..MaxChunkBytes}

\* (as if the two bytes of a sample were read high byte first)
Int16BigEndian(b0, b1) ==
    LET raw == 256 * b0 + b1
    IN  IF raw >= 32768 THEN raw - 65536 ELSE raw

\* dtype=np.int16 on two bytes in memory order: low byte first, two's
\* complement
Int16(b0, b1) ==
    LET raw == b0 + 256 * b1
    IN  IF raw >= 32768 THEN raw - 65536 ELSE raw

\* .astype(np.float32) / 32768.0 of an int16: every int16 is a float32 and
\* the division by a power of two is exact, so the float is the fraction
Float32Sample(v) == [num |-> v, den |-> 32768]

\* np.frombuffer(audio_buffer, dtype=np.int16).astype(np.float32) / 32768.0:
\* the items are taken two bytes at a time from the start of the buffer
RECURSIVE FromBuffer(_)
FromBuffer(buf) ==
    IF Len(buf) = 0 THEN <<>>
    ELSE <<Float32Sample(Int16(buf[1], buf[2]))>>
             \o FromBuffer(SubSeq(buf, 3, Len(buf)))

\* the conversion of the buffer: a buffer whose length is not a multiple of
\* the item size makes np.frombuffer raise
Waveform(buf) ==
    IF FromBufferOk(Len(buf)) THEN FromBuffer(buf) ELSE "ValueError"

BufferAtRest ==
    /\ audio_bytes = <<>>
    /\ chunks_in = <<>>
    /\ audio_np = None
    /\ converted = <<>>
    /\ n_appends = 0

\* ------------------------------------------- double-precision floats
\* A positive double is m * 2^e with 2^52 <= m < 2^53, its 53-bit
\* significand m kept as two limbs hi * 2^27 + lo; zero has m = 0.  (The
\* exponents of a session's clock stay far from the subnormal and the
\* overflow range.)
RECURSIVE Pow2(_)
Pow2(k) == IF k = 0 THEN 1 ELSE 2 * Pow2(k - 1)

LimbBits == 27
Limb == Pow2(LimbBits)

FZero == [e |-> 0, hi |-> 0, lo |-> 0]
IsZero(x) == x.hi = 0 /\ x.lo = 0

\* two-limb naturals below 2^55
Nat2(hi, lo) == [hi |-> hi, lo |-> lo]
Pow2L(k) == IF k < LimbBits THEN Nat2(0, Pow2(k)) ELSE Nat2(Pow2(k - LimbBits), 0)
AddL(x, y) ==
    LET lo == x.lo + y.lo
    IN  Nat2(x.hi + y.hi + (lo \div Limb), lo % Limb)
LessL(x, y) == x.hi < y.hi \/ (x.hi = y.hi /\ x.lo < y.lo)
ShiftRightL(x, d) ==
    IF d = 0 THEN x
    ELSE IF d < LimbBits
    THEN Nat2(x.hi \div Pow2(d),
              (x.hi % Pow2(d)) * Pow2(LimbBits - d) + (x.lo \div Pow2(d)))
    ELSE IF d < 2 * LimbBits THEN Nat2(0, x.hi \div Pow2(d - LimbBits))
    ELSE Nat2(0, 0)
ModPow2L(x, d) ==
    IF d = 0 THEN Nat2(0, 0)
    ELSE IF d < LimbBits THEN Nat2(0, x.lo % Pow2(d))
    ELSE IF d < 2 * LimbBits THEN Nat2(x.hi % Pow2(d - LimbBits), x.lo)
    ELSE x
IsOdd(x) == x.lo % 2 = 1
TwoTo53 == Nat2(Pow2(53 - LimbBits), 0)
TwoTo52 == Nat2(Pow2(52 - LimbBits), 0)

\* round to nearest, ties to even: the significand s (below 2^54) whose
\* lowest bit has exponent e, followed by the fraction frac / 2^d of that
\* bit (d <= 54)
RoundEven(s, e, frac, d) ==
    LET wide == ~LessL(s, TwoTo53)
        s1   == IF wide THEN ShiftRightL(s, 1) ELSE s
        e1   == IF wide THEN e + 1 ELSE e
        f1   == IF wide /\ IsOdd(s) THEN AddL(frac, Pow2L(d)) ELSE frac
        d1   == IF wide THEN d + 1 ELSE d
        half == IF d1 = 0 THEN Nat2(0, 0) ELSE Pow2L(d1 - 1)
        up   == d1 > 0 /\ (LessL(half, f1) \/ (f1 = half /\ IsOdd(s1)))
        s2   == IF up THEN AddL(s1, Nat2(0, 1)) ELSE s1
    IN  IF s2 = TwoTo53
        THEN [e |-> e1 + 1, hi |-> TwoTo52.hi, lo |-> 0]
        ELSE [e |-> e1, hi |-> s2.hi, lo |-> s2.lo]

\* x + y in double precision
FAdd(x, y) ==
    IF IsZero(x) THEN y
    ELSE IF IsZero(y) THEN x
    ELSE LET a == IF x.e >= y.e THEN x ELSE y
             b == IF x.e >= y.e THEN y ELSE x
             d == a.e - b.e
         IN  IF d > 54 THEN a
             ELSE RoundEven(AddL(Nat2(a.hi, a.lo), ShiftRightL(Nat2(b.hi, b.lo), d)),
                            a.e, ModPow2L(Nat2(b.hi, b.lo), d), d)

FLess(x, y) ==
    IF IsZero(y) THEN FALSE
    ELSE IF IsZero(x) THEN TRUE
    ELSE x.e < y.e \/ (x.e = y.e /\ LessL(Nat2(x.hi, x.lo), Nat2(y.hi, y.lo)))

\* the exponent E of a / b: b * 2^E <= a < b * 2^(E + 1)
RECURSIVE Log2Floor(_, _)
Log2Floor(a, b) ==
    IF a < b THEN Log2Floor(2 * a, b) - 1
    ELSE IF a >= 2 * b THEN Log2Floor(a, 2 * b) + 1
    ELSE 0

\* the next 13 bits of the quotient of r / b (r < b < 2^17), and what is left
DivDigit(r, b) == [q |-> (r * 8192) \div b, r |-> (r * 8192) % b]

\* n / d in double precision, for integers 0 <= n and 0 < d below 2^17:
\* the leading bit and four digits of 13 bits are the 53 bits of the
\* significand, the next bit and the remainder decide the rounding
FDiv(n, d) ==
    IF n = 0 THEN FZero
    ELSE LET E  == Log2Floor(n, d)
             a  == IF E < 0 THEN n * Pow2(0 - E) ELSE n
             b  == IF E > 0 THEN d * Pow2(E) ELSE d
             d1 == DivDigit(a - b, b)
             d2 == DivDigit(d1.r, b)
             d3 == DivDigit(d2.r, b)
             d4 == DivDigit(d3.r, b)
             s  == Nat2(Pow2(25) + d1.q * 4096 + (d2.q \div 2),
                        (d2.q % 2) * Pow2(26) + d3.q * 8192 + d4.q)
             g  == IF 2 * d4.r >= b THEN 1 ELSE 0
             r1 == 2 * d4.r - g * b
             frac == Nat2(0, 2 * g + (IF r1 # 0 THEN 1 ELSE 0))
         IN  RoundEven(s, E - 52, frac, 2)

\* ------------------------------------------------- StreamingDiarizer
IDENTIFYING == "Identifying..."

\* An argument of process: None, or an array holding the ramp first,
\* first + 1, ... along its time axis: (n,), (1, n), or (1, n, trail) with
\* every row constant.
NoArray == [ndim |-> 0, first |-> 0, n |-> 0, trail |-> 0]
Flat(first, n) == [ndim |-> 1, first |-> first, n |-> n, trail |-> 0]
Mono(first, n) == [ndim |-> 2, first |-> first, n |-> n, trail |-> 0]
Cube(first, n, k) == [ndim |-> 3, first |-> first, n |-> n, trail |-> k]

\* 125 samples last 2^-7 s at 16 kHz, a duration a double holds exactly
ChunkLens == (0 .. (WindowCapacity + 1)) \cup {125}
Waveforms ==
    {Mono(10, n) : n \in ChunkLens}
        \cup {Mono(20, 2), Flat(30, 1),
              Cube(40, WindowCapacity + 1, WindowCapacity + 2), NoArray}

Samples(w) == [i \in 1 .. w.n |-> w.first + i - 1]

\* self.audio_buffer: the samples along the time axis and the trailing
\* dimension of the array (0 for an array (1, capacity)); NoWindow is None
NoWindow == [trail |-> 0, samples |-> <<>>]
Zeros == [trail |-> 0, samples |-> [i \in 1 .. WindowCapacity |-> 0]]

\* the last cap elements of a sequence
KeepLastOf(s, cap) == SubSeq(s, Len(s) - cap + 1, Len(s))
\* the first samples of the chunk kept
KeepFirst(s, cap) == SubSeq(s, 1, cap)
\* waveform[:, -expected_samples:]
KeepLast(s, cap) == SubSeq(s, Len(s) - cap + 1, Len(s))
\* (as if the window were not shifted)
RollNone(s, k) == s
\* np.roll(self.audio_buffer, -new_samples, axis=1)
Roll(s, k) == [i \in 1 .. Len(s) |-> s[((i - 1 + k) % Len(s)) + 1]]
\* self.audio_buffer[:, -new_samples:] = waveform: whether numpy can
\* broadcast the chunk into the slice (the slice [:, -0:] is the whole
\* array), and the array after it
Broadcastable(buf, w) ==
    /\ w.n >= 1
    /\ IF buf.trail = 0
       THEN w.trail = 0 \/ (w.n = 1 /\ w.trail = 1)
       ELSE IF w.trail = 0 THEN w.n = 1 \/ w.n = buf.trail
            ELSE w.trail = buf.trail \/ w.trail = 1
\* (as if the chunk were not written to the end of the window)
AssignTailSkip(s, new) == s
AssignTail(s, new) ==
    [i \in 1 .. Len(s) |->
        IF i > Len(s) - Len(new) THEN new[i - (Len(s) - Len(new))] ELSE s[i]]

\* the clock set to the chunk's duration
ClockStepReset(c, n) == FDiv(n, SAMPLING_RATE)
\* Times in sample periods (1 / 16000 s), counted from the session's
\* start: the clock before a call is the number of samples written so far.
RECURSIVE SumSeq(_)
SumSeq(s) == IF s = <<>> THEN 0 ELSE Head(s) + SumSeq(Tail(s))
NoSegment == [start |-> 0, end |-> 0]
\* chunk.extent: the cap samples of the window, the first at the clock
\* before the advance, one sample period each
Extent(c, cap) == [start |-> c, end |-> c + cap]
\* (as if the annotation were cropped to the clock before and after)
FocusSegmentClock(c, cap, n) == [start |-> c, end |-> c + n]
\* Segment(window_end - current_duration_seconds, window_end)
FocusSegment(c, cap, n) ==
    [start |-> Extent(c, cap).end - n, end |-> Extent(c, cap).end]

\* self.clock += new_samples / Config.SAMPLING_RATE
ClockStep(c, n) == FAdd(c, FDiv(n, SAMPLING_RATE))

\* What self.pipeline([chunk]) comes to: it raises, or it returns an
\* annotation, here the tracks of the cropped interval with their durations
\* in milliseconds.
Track(ms, label) == [ms |-> ms, label |-> label]
Annotations ==
    {<<>>,
     <<Track(50, "speaker0")>>,
     <<Track(51, "speaker1")>>,
     <<Track(1000, "speaker0"), Track(60, "speaker1"), Track(70, "speaker1")>>,
     <<Track(500, "speaker1"), Track(500, "speaker0")>>,
     <<Track(500, "speaker0"), Track(50, "speaker1"), Track(50, "speaker1")>>,
     <<Track(500, "A")>>}
PipelineRaises == [raises |-> TRUE, tracks |-> <<>>]
PipelineOutcomes ==
    {PipelineRaises} \cup {[raises |-> FALSE, tracks |-> a] : a \in Annotations}
\* the call did not come to the pipeline
NoOutcome == [raises |-> FALSE, tracks |-> <<>>]

\* (as if a track of exactly 50 ms were kept)
SurvivesAtLeast(t) == t.ms >= 50
\* if segment.duration > 0.05: speakers.append(label)
Survives(t) == t.ms > 50
Speakers(ann) ==
    LET kept == SelectSeq(ann, Survives)
    IN  [i \in 1 .. Len(kept) |-> kept[i].label]
\* (as if the label of the last surviving track were taken)
LastLabel(speakers) == speakers[Len(speakers)]
\* Counter(speakers).most_common(1)[0][0]: the most frequent label, the one
\* met first among equals
MostCommon(speakers) ==
    LET Count(l) == Cardinality({i \in 1 .. Len(speakers) : speakers[i] = l})
        First(l) == CHOOSE i \in 1 .. Len(speakers) :
                        /\ speakers[i] = l
                        /\ \A j \in 1 .. (i - 1) : speakers[j] # l
        labels == {speakers[i] : i \in 1 .. Len(speakers)}
    IN  CHOOSE l \in labels :
            \A m \in labels \ {l} :
                Count(l) > Count(m) \/ (Count(l) = Count(m) /\ First(l) < First(m))
\* speaker_label.replace("speaker", "Speaker ") or f"Speaker {speaker_label}"
FormatSpeaker(label) ==
    CASE label = "speaker0" -> "Speaker 0"
      [] label = "speaker1" -> "Speaker 1"
      [] OTHER -> "Speaker A"
\* the sentinel whatever is remembered
FallbackSentinel(last) == IDENTIFYING
\* no speaker in the interval: the last one if there is one
Fallback(last) == IF last # None THEN last ELSE IDENTIFYING
\* (as if what the fallback returns were remembered)
AfterFallbackRemember(last, ret) == ret
\* self.last_speaker after the fallback has returned ret: the fallback
\* assigns nothing
AfterFallback(last, ret) == last
\* the exception raised again to the caller
ProcessExceptReraise == [raised |-> TRUE, ret |-> None]
\* except Exception: logged, return None
ProcessExcept == [raised |-> FALSE, ret |-> None]

NoCall == [w |-> NoArray, out |-> NoOutcome, ret |-> None, raised |-> FALSE, stage |-> "none"]
Failed(stage, w) ==
    [w |-> w, out |-> NoOutcome, ret |-> ProcessExcept.ret,
     raised |-> ProcessExcept.raised, stage |-> stage]

DiarizerAtRest ==
    /\ pipeline = None
    /\ last_speaker = None
    /\ clock = FZero
    /\ window = NoWindow
    /\ ncalls = 0
    /\ lens = <<>>
    /\ call = NoCall
    /\ tail = Zeros.samples
    /\ focus = NoSegment

\* ----------------------------------- add_text_to_diarization_segments
\* Strings are sequences of characters; times are given in hundredths of a
\* second and are the doubles nearest to them (0.55 is FDiv(55, 100)).
NoTime == -1
Time(c) == FDiv(c, 100)
FHalf(x) == IF IsZero(x) THEN x ELSE [x EXCEPT !.e = @ - 1]
FLeq(x, y) == ~FLess(y, x)

One == <<"o", "n", "e">>
Two == <<"t", "w", "o">>
Mid == <<"m", "i", "d">>
Far == <<"f", "a", "r">>

\* an entry of word_timestamps: a tuple (word, start, end), a tuple of two
\* elements (word, start), or a dict; NoTime is None, and in a dict also a
\* missing key
Word(word, start, end) ==
    [form |-> "tuple", word |-> word, start |-> start, end |-> end]
ShortTuple(word, start) ==
    [form |-> "short", word |-> word, start |-> start, end |-> NoTime]
DictWord(word, start, end) ==
    [form |-> "dict", word |-> word, start |-> start, end |-> end]
WordItems ==
    {Word(One, 0, 50), Word(Two, 60, 100), Word(Mid, 50, 60),
     Word(Far, 130, 140), Word(<<>>, 0, 50), Word(One, NoTime, 50),
     ShortTuple(Two, 60), DictWord(Two, 60, NoTime)}
\* an entry of diarization
Turn(speaker, start, end) == [speaker |-> speaker, start |-> start, end |-> end]
Turns == {Turn("A", 0, 55), Turn("B", 55, 120), Turn("C", 60, 100)}

SeqsUpTo(S, n) == UNION {[1 .. k -> S] : k \in 0 .. n}

\* word, start, end as the loop reads them from an entry: nothing from a
\* tuple of fewer than three elements
Fields(item) ==
    IF item.form = "short"
    THEN [word |-> <<>>, start |-> NoTime, end |-> NoTime]
    ELSE [word |-> item.word, start |-> item.start, end |-> item.end]
\* if word and start is not None and end is not None
ValidWord(item) ==
    LET f == Fields(item)
    IN  f.word # <<>> /\ f.start # NoTime /\ f.end # NoTime
\* normalized_words
Normalize(items) ==
    LET kept == SelectSeq(items, ValidWord)
    IN  [i \in 1 .. Len(kept) |-> Fields(kept[i])]
\* (w["start"] + w["end"]) / 2
WordMid(w) == FHalf(FAdd(Time(w.start), Time(w.end)))
\* the interval without its end
InSegmentHalfOpen(w, seg) ==
    FLeq(Time(seg.start), WordMid(w)) /\ FLess(WordMid(w), Time(seg.end))
\* seg_start <= word_mid <= seg_end
InSegment(w, seg) ==
    FLeq(Time(seg.start), WordMid(w)) /\ FLeq(WordMid(w), Time(seg.end))
\* segment_words
SegmentWords(ws, seg) ==
    LET In(w) == InSegment(w, seg)
        kept == SelectSeq(ws, In)
    IN  [i \in 1 .. Len(kept) |-> kept[i].word]
\* " ".join(segment_words)
RECURSIVE Join(_)
Join(ws) ==
    IF ws = <<>> THEN <<>>
    ELSE IF Len(ws) = 1 THEN ws[1]
    ELSE ws[1] \o <<" ">> \o Join(Tail(ws))

\* an entry of the list returned: the keys it has and their values
Entry(seg, keys, text) ==
    [speaker |-> seg.speaker, start |-> seg.start, end |-> seg.end,
     keys |-> keys, text |-> text]
\* a turn as it came in, which has no text
AsGiven(seg) == Entry(seg, {"speaker", "start", "end"}, <<>>)
WithText(seg, text) == Entry(seg, {"speaker", "start", "end", "text"}, text)

add_text_to_diarization_segments(words, turns) ==
    IF turns = <<>> THEN <<>>
    ELSE IF words = <<>> THEN [i \in 1 .. Len(turns) |-> AsGiven(turns[i])]
    ELSE [i \in 1 .. Len(turns) |->
            WithText(turns[i], Join(SegmentWords(Normalize(words), turns[i])))]

NotReturned == [returned |-> FALSE, entries |-> <<>>]
AlignAtRest ==
    /\ word_timestamps = <<>>
    /\ diarization = <<>>
    /\ result = NotReturned

TranscriberAtRest == transcriptions = <<>>

\* ------------------------------------------------- IndicWSSTTService
\* A message of the server: the JSON document it carries and, of an object,
\* its type and text (None for a key it lacks), numbered in the order sent.
ServerKinds ==
    { [json |-> "object", type |-> "transcription", text |-> "namaste"],
      [json |-> "object", type |-> "transcription", text |-> ""],
      [json |-> "object", type |-> "config", text |-> None],
      [json |-> "array", type |-> None, text |-> None],
      [json |-> "malformed", type |-> None, text |-> None] }
Message(id, k) == [id |-> id, json |-> k.json, type |-> k.type, text |-> k.text]

\* TranscriptionFrame(text=text, user_id="user", timestamp=None) made of the
\* message m
TranscriptFrame(m) == [kind |-> "transcript", id |-> m.id, text |-> m.text]
\* the n-th frame the pipeline hands to process_frame
PipelineFrame(kind, n) == [kind |-> kind, id |-> n, text |-> ""]
\* AudioRawFrame, EndFrame, CancelFrame, any other frame; the pipeline's
\* first frame is the StartFrame
FrameKinds == {"audio", "end", "cancel", "other"}

\* (as if any transcription message were queued, its text empty or not)
PutsAnyText(m) == m.json = "object" /\ m.type = "transcription"
\* if data.get("type") == "transcription": text = data.get("text"); if text:
Puts(m) ==
    m.json = "object" /\ m.type = "transcription" /\ m.text \notin {None, ""}
\* the queue after the body of the receive loop has run on m: json.loads
\* or data.get raising is logged by "except Exception"
OnMessage(q, m) ==
    IF m.json = "malformed" THEN q
    ELSE IF m.json # "object" THEN q
    ELSE IF Puts(m) THEN Append(q, TranscriptFrame(m))
    ELSE q

\* what push_frame does: it returns, or it raises
PushOutcomes == {"ok", "raise"}

NoFrameCall ==
    [pc |-> "idle", frame |-> PipelineFrame("none", 0), queued |-> <<>>]
NoTeardown == [n |-> 0, task_before |-> "none", outcome |-> "none"]

ClientAtRest ==
    /\ _websocket = None
    /\ _receive_task = None
    /\ _transcript_queue = <<>>
    /\ connection = "none"
    /\ task_state = "none"
    /\ wire = <<>>
    /\ received = <<>>
    /\ downstream = <<>>
    /\ pf = NoFrameCall
    /\ nserver = 0
    /\ nframes = 0
    /\ teardown = NoTeardown

\* ----------------------------------------------------------- actions
Init ==
    /\ active_connections = <<>>
    /\ current_language = InitialLanguage
    /\ asr_loaded \in BOOLEAN
    /\ pc = [c \in Conns |-> "idle"]
    /\ audio_buffer = [c \in Conns |-> 0]
    /\ client_closed = [c \in Conns |-> FALSE]
    /\ outbox = [c \in Conns |-> <<>>]
    /\ bc = [c \in Conns |-> NoBroadcast]
    /\ nmsgs = 0
    /\ ev = Ev("Init", NoConn, NoText, None, None, NoConn)
    /\ flushed = [c \in Conns |-> <<>>]
    /\ query_language = [c \in Conns |-> None]
    /\ ClientAtRest
    /\ BufferAtRest
    /\ DiarizerAtRest
    /\ AlignAtRest
    /\ TranscriberAtRest

\* the handler is entered with the query parameter language:
\* manager.connect, then the config frame
\* (connections are numbered in the order they are opened)
ConnectAs(t, language) ==
    /\ pc[t] = "idle"
    /\ \A u \in 1..(t - 1) : pc[u] # "idle"
    /\ Apply([Deliver(ManagerConnect(ConnectLanguage(Cur, language), t), t,
                      ConfigFrame(ConnectLanguage(Cur, language).lang))
                 EXCEPT !.pc[t] = "connected"])
    /\ ev' = Ev("Connect", t, NoText, None, None, NoConn)
    /\ UNCHANGED <<asr_loaded, client_closed, nmsgs, flushed>>

\* a connection opened without the query parameter
Connect(t) ==
    /\ ConnectAs(t, None)
    /\ UNCHANGED others

\* asr_model = model_container.get("asr"): close with code 1011 and
\* return, or the loop.  On a transport the client has closed,
\* websocket.close returns or raises, as the server implementation has it.
CheckModel(t) ==
    /\ pc[t] = "connected"
    /\ IF asr_loaded
       THEN /\ Apply(AfterCheck(Cur, t, asr_loaded))
            /\ ev' = Ev("CheckModel", t, NoText, None, None, NoConn)
       ELSE \E raises \in (IF client_closed[t] THEN BOOLEAN ELSE {FALSE}) :
                /\ Apply(IF raises THEN OuterExcept(Cur, t)
                                   ELSE AfterCheck(Cur, t, asr_loaded))
                /\ ev' = Ev("CheckModel", t, NoText, CLOSE_UNAVAILABLE, None, NoConn)
    /\ UNCHANGED <<asr_loaded, client_closed, nmsgs, flushed, others>>

RecvBytes(t) ==
    /\ pc[t] = "recv"
    /\ nmsgs < MaxMsgs
    /\ \E n \in ChunkSizes, out \in ModelOutputs, exc \in TransportErrors :
          LET len == audio_buffer[t] + n
              res == FlushResult(len, out)
          IN  /\ Apply(HandleBytes(Cur, t, n, out, exc))
              /\ flushed' = LogFlush(HandleBytes(Cur, t, n, out, exc), t)
              /\ ev' = Ev("RecvBytes", t, NoText, res,
                          IF res \in {"buffered", "ValueError"}
                          THEN None ELSE current_language,
                          IF res \in {"buffered", "ValueError", Raise, ""}
                          THEN NoConn
                          ELSE IterTarget(Cur, NewBroadcast(Cur, NoFrame, "flush")))
    /\ nmsgs' = nmsgs + 1
    /\ UNCHANGED <<asr_loaded, client_closed, others>>

RecvText(t) ==
    /\ pc[t] = "recv"
    /\ nmsgs < MaxMsgs
    /\ \E f \in TextFrames, exc \in TransportErrors :
          /\ Apply(HandleText(Cur, t, f, exc))
          /\ flushed' = LogFlush(HandleText(Cur, t, f, exc), t)
          /\ ev' = Ev("RecvText", t, f, None, None,
                      IF f.json = "object" /\ f.type = "config"
                         /\ LanguageValid(f.language)
                      THEN IterTarget(Cur, NewBroadcast(Cur, NoFrame, "config"))
                      ELSE NoConn)
    /\ nmsgs' = nmsgs + 1
    /\ UNCHANGED <<asr_loaded, client_closed, others>>

\* a task suspended in send_text inside broadcast is resumed
BroadcastStep(t) ==
    /\ pc[t] = "bcast"
    /\ \E exc \in TransportErrors :
          /\ Apply(RunBroadcast(Cur, t, bc[t], exc))
          /\ flushed' = LogFlush(RunBroadcast(Cur, t, bc[t], exc), t)
    /\ ev' = Ev("BroadcastStep", t, NoText, None, None, IterTarget(Cur, bc[t]))
    /\ UNCHANGED <<asr_loaded, client_closed, nmsgs, others>>

\* websocket.receive() on a transport the client has closed
RecvDisconnect(t) ==
    /\ pc[t] = "recv"
    /\ client_closed[t]
    /\ \E exc \in TransportErrors :
          /\ Apply(LoopExcept(Cur, t, exc))
          /\ ev' = Ev("RecvDisconnect", t, NoText, exc, None, NoConn)
    /\ UNCHANGED <<asr_loaded, client_closed, nmsgs, flushed, others>>

\* the client closes the transport
ClientClose(t) ==
    /\ pc[t] \in Open
    /\ ~client_closed[t]
    /\ Cardinality({c \in Conns : client_closed[c]}) < MaxCloses
    /\ client_closed' = [client_closed EXCEPT ![t] = TRUE]
    /\ ev' = Ev("ClientClose", t, NoText, None, None, NoConn)
    /\ UNCHANGED <<active_connections, current_language, asr_loaded, pc,
                   audio_buffer, outbox, bc, nmsgs, flushed, others>>

Next ==
    \E t \in Conns :
        \/ Connect(t)
        \/ CheckModel(t)
        \/ RecvBytes(t)
        \/ RecvText(t)
        \/ BroadcastStep(t)
        \/ RecvDisconnect(t)
        \/ ClientClose(t)

Spec == Init /\ [][Next]_vars

\* -------------------------------------------------------- QuerySpec
\* Sessions opened with a language query parameter, on transports the
\* clients keep open.  The values of the parameter with which the handler
\* is entered: absent, the initial language, another member of Language.
QueryLanguages == {None, "hi", "ne"}

QueryInit == Init

\* a connection opened with ?language=...
QueryConnect(t) ==
    \E language \in QueryLanguages :
        /\ ConnectAs(t, language)
        /\ query_language' = [query_language EXCEPT ![t] = language]
        /\ UNCHANGED components

QueryNext ==
    \E t \in Conns :
        \/ QueryConnect(t)
        \/ CheckModel(t)
        \/ RecvBytes(t)
        \/ RecvText(t)
        \/ BroadcastStep(t)

QuerySpec == QueryInit /\ [][QueryNext]_<<vars, queryVars>>

\* ------------------------------------------------------- BufferSpec
\* the router before any connection
RouterAtRest ==
    /\ active_connections = <<>>
    /\ current_language = InitialLanguage
    /\ asr_loaded = TRUE
    /\ pc = [c \in Conns |-> "idle"]
    /\ audio_buffer = [c \in Conns |-> 0]
    /\ client_closed = [c \in Conns |-> FALSE]
    /\ outbox = [c \in Conns |-> <<>>]
    /\ bc = [c \in Conns |-> NoBroadcast]
    /\ nmsgs = 0
    /\ ev = Ev("Init", NoConn, NoText, None, None, NoConn)
    /\ flushed = [c \in Conns |-> <<>>]
    /\ query_language = [c \in Conns |-> None]
    /\ ClientAtRest

BufferInit ==
    RouterAtRest /\ BufferAtRest /\ DiarizerAtRest /\ AlignAtRest /\ TranscriberAtRest

\* audio_buffer.extend(data)
BufferExtend ==
    /\ audio_np # "ValueError"
    /\ n_appends < MaxAppends
    /\ \E data \in Chunks :
          /\ audio_bytes' = audio_bytes \o data
          /\ chunks_in' = Append(chunks_in, data)
    /\ n_appends' = n_appends + 1
    /\ UNCHANGED <<audio_np, converted, exceptBuffer>>

\* the conversion of the buffer to the waveform, then
\* audio_buffer = bytearray(); taken at whatever length the buffer has (the
\* lengths the threshold asks for are those of the router's specification)
BufferFlush ==
    /\ audio_np # "ValueError"
    /\ audio_bytes # <<>>
    /\ audio_np' = Waveform(audio_bytes)
    /\ converted' = audio_bytes
    /\ IF FromBufferOk(Len(audio_bytes))
       THEN audio_bytes' = <<>> /\ chunks_in' = <<>>
       ELSE UNCHANGED <<audio_bytes, chunks_in>>
    /\ UNCHANGED <<n_appends, exceptBuffer>>

BufferNext == BufferExtend \/ BufferFlush

BufferSpec == BufferInit /\ [][BufferNext]_<<bufferVars, exceptBuffer>>

\* ------------------------------------------------------ DiarizerSpec
\* StreamingDiarizer(): the pipeline is built, or (diarization disabled, or
\* the models failed to load) it is left None
DiarizerInit ==
    /\ RouterAtRest
    /\ BufferAtRest
    /\ AlignAtRest
    /\ TranscriberAtRest
    /\ pipeline \in {"ready", None}
    /\ last_speaker = None
    /\ clock = FZero
    /\ window = NoWindow
    /\ ncalls = 0
    /\ lens = <<>>
    /\ call = NoCall
    /\ tail = Zeros.samples
    /\ focus = NoSegment

\* process(waveform), the pipeline coming to out if it is called
Process(w, out) ==
    LET buf0 == IF window = NoWindow THEN Zeros ELSE window
        replaced == [trail |-> w.trail,
                     samples |-> KeepLast(Samples(w), WindowCapacity)]
        rolled == [buf0 EXCEPT !.samples = Roll(@, w.n)]
        assigned == [rolled EXCEPT !.samples = AssignTail(@, Samples(w))]
        speakers == Speakers(out.tracks)
        speaker == FormatSpeaker(MostCommon(speakers))
    IN  /\ ncalls < MaxCalls
        /\ ncalls' = ncalls + 1
        /\ UNCHANGED <<pipeline, exceptDiarizer>>
        /\ IF pipeline = None
           THEN \* if self.pipeline is None: return None
                /\ call' = [w |-> w, out |-> NoOutcome, ret |-> None,
                            raised |-> FALSE, stage |-> "off"]
                /\ focus' = NoSegment
                /\ UNCHANGED <<last_speaker, clock, window, lens, tail>>
           ELSE IF w.ndim = 0
           THEN \* np.array(None).astype(np.float32) raises
                /\ call' = Failed("convert", w)
                /\ focus' = NoSegment
                /\ UNCHANGED <<last_speaker, clock, window, lens, tail>>
           ELSE IF w.n < WindowCapacity /\ ~Broadcastable(buf0, w)
           THEN \* the window is rolled, then the assignment raises
                /\ window' = rolled
                /\ call' = Failed("assign", w)
                /\ focus' = NoSegment
                /\ UNCHANGED <<last_speaker, clock, lens, tail>>
           ELSE /\ window' = IF w.n >= WindowCapacity THEN replaced ELSE assigned
                /\ clock' = ClockStep(clock, w.n)
                /\ lens' = Append(lens, w.n)
                /\ tail' = KeepLastOf(tail \o Samples(w), WindowCapacity)
                /\ focus' = IF out.raises THEN NoSegment
                             ELSE FocusSegment(SumSeq(lens), WindowCapacity, w.n)
                /\ IF out.raises
                   THEN /\ call' = [Failed("pipeline", w) EXCEPT !.out = out]
                        /\ UNCHANGED last_speaker
                   ELSE IF speakers = <<>>
                   THEN /\ call' = [w |-> w, out |-> out,
                                    ret |-> Fallback(last_speaker),
                                    raised |-> FALSE, stage |-> "done"]
                        /\ last_speaker' = AfterFallback(last_speaker,
                                                         Fallback(last_speaker))
                   ELSE /\ last_speaker' = speaker
                        /\ call' = [w |-> w, out |-> out, ret |-> speaker,
                                    raised |-> FALSE, stage |-> "done"]

DiarizerProcess == \E w \in Waveforms : \E out \in PipelineOutcomes : Process(w, out)

DiarizerNext == DiarizerProcess

DiarizerSpec == DiarizerInit /\ [][DiarizerNext]_<<diarizerVars, exceptDiarizer>>

\* --------------------------------------------------------- AlignSpec
AlignInit ==
    /\ RouterAtRest
    /\ BufferAtRest
    /\ DiarizerAtRest
    /\ TranscriberAtRest
    /\ word_timestamps \in SeqsUpTo(WordItems, MaxWords)
    /\ diarization \in SeqsUpTo(Turns, MaxTurns)
    /\ result = NotReturned

\* the call returns
Align ==
    /\ ~result.returned
    /\ result' = [returned |-> TRUE,
                  entries |-> add_text_to_diarization_segments(word_timestamps,
                                                               diarization)]
    /\ UNCHANGED <<word_timestamps, diarization, exceptAlign>>

AlignNext == Align

AlignSpec == AlignInit /\ [][AlignNext]_<<alignVars, exceptAlign>>

\* --------------------------------------------------- TranscriberSpec
TranscriberInit ==
    /\ RouterAtRest
    /\ BufferAtRest
    /\ DiarizerAtRest
    /\ AlignAtRest
    /\ transcriptions = <<>>

\* transcribe_tensor(audio_tensor, language_id), the model coming to out
TranscribeTensor ==
    /\ Len(transcriptions) < MaxTranscribes
    /\ \E out \in ModelOutputs, lang \in LanguageValues :
          transcriptions' = Append(transcriptions,
                                   [out |-> out, lang |-> lang,
                                    res |-> transcribe_tensor(out)])
    /\ UNCHANGED exceptTranscriber

TranscriberNext == TranscribeTensor

TranscriberSpec ==
    TranscriberInit /\ [][TranscriberNext]_<<transcriberVars, exceptTranscriber>>

\* ------------------------------------------------------- ClientSpec
\* One IndicWSSTTService in a pipeline that hands it one frame at a time
\* (process_frame is not re-entered), its receive task, and the server at
\* the other end of the connection.
ClientInit ==
    /\ RouterAtRest
    /\ BufferAtRest
    /\ DiarizerAtRest
    /\ AlignAtRest
    /\ TranscriberAtRest

\* the server sends a message
ServerSend ==
    /\ connection = "open"
    /\ nserver < MaxServerMsgs
    /\ \E k \in ServerKinds :
          wire' = Append(wire, Message(nserver + 1, k))
    /\ nserver' = nserver + 1
    /\ UNCHANGED <<_websocket, _receive_task, _transcript_queue, connection,
                   task_state, received, downstream, pf, nframes, teardown,
                   exceptClient>>

\* _receive_messages: one pass of "async for message in self._websocket"
ReceiveMessage ==
    /\ task_state = "running"
    /\ wire # <<>>
    /\ _transcript_queue' = OnMessage(_transcript_queue, Head(wire))
    /\ received' = Append(received, Head(wire))
    /\ wire' = Tail(wire)
    /\ UNCHANGED <<_websocket, _receive_task, connection, task_state,
                   downstream, pf, nserver, nframes, teardown, exceptClient>>

\* _receive_messages: the connection is closed; the iteration ends, or
\* raises ConnectionClosed which is logged, and the task returns
ReceiveClosed ==
    /\ task_state = "running"
    /\ connection = "open"
    /\ wire = <<>>
    /\ connection' = "closed"
    /\ task_state' = "finished"
    /\ UNCHANGED <<_websocket, _receive_task, _transcript_queue, wire,
                   received, downstream, pf, nserver, nframes, teardown,
                   exceptClient>>

\* _receive_messages: the iteration raises another exception, which is
\* logged and raised again: the task ends with it
ReceiveFails ==
    /\ task_state = "running"
    /\ task_state' = "failed"
    /\ UNCHANGED <<_websocket, _receive_task, _transcript_queue, connection,
                   wire, received, downstream, pf, nserver, nframes,
                   teardown, exceptClient>>

\* (as if get_nowait left the transcript in the queue)
QueueAfterGetKeep(q) == q
\* the queue after get_nowait
QueueAfterGet(q) == Tail(q)

\* one pass of "while not self._transcript_queue.empty()": get_nowait,
\* then push_frame, which returns or raises; back at the loop test at pc
DrainOne(at, out) ==
    /\ _transcript_queue' = QueueAfterGet(_transcript_queue)
    /\ downstream' = IF out = "ok"
                      THEN Append(downstream, Head(_transcript_queue))
                      ELSE downstream
    /\ pf' = IF out = "ok" THEN [pf EXCEPT !.pc = at] ELSE NoFrameCall
    /\ UNCHANGED <<_websocket, _receive_task, connection, task_state, teardown>>

\* _connect: the connection, then the receive task
DoConnect ==
    /\ _websocket' = "ws"
    /\ connection' = "open"
    /\ _receive_task' = "task"
    /\ task_state' = "running"
    /\ UNCHANGED teardown

\* _disconnect raises: the task had ended with an exception, which
\* "await self._receive_task" raises again
DisconnectRaises == _receive_task # None /\ task_state = "failed"
\* _disconnect: cancel and await the task, then close the connection
DoDisconnect ==
    /\ task_state' = IF _receive_task # None /\ task_state = "running"
                      THEN "cancelled" ELSE task_state
    /\ _receive_task' = IF DisconnectRaises THEN _receive_task ELSE None
    /\ _websocket' = IF DisconnectRaises THEN _websocket ELSE None
    /\ connection' = IF ~DisconnectRaises /\ _websocket # None
                      THEN "closed" ELSE connection
    /\ teardown' = [n |-> teardown.n + 1,
                    task_before |-> IF _receive_task # None THEN task_state
                                    ELSE "none",
                    outcome |-> IF DisconnectRaises THEN "raised" ELSE "returned"]

\* the frame of the call is pushed: push_frame returns or raises
PushCurrent(out) ==
    /\ downstream' = IF out = "ok" THEN Append(downstream, pf.frame)
                      ELSE downstream
    /\ pf' = IF out = "ok" THEN [pf EXCEPT !.pc = "after"] ELSE NoFrameCall

\* process_frame is called with the pipeline's next frame
ProcessFrameCall ==
    /\ pf.pc = "idle"
    /\ nframes < MaxFrames
    /\ nframes' = nframes + 1
    /\ \E kind \in (IF nframes = 0 THEN {"start"} ELSE FrameKinds) :
          pf' = [pc |-> "first", frame |-> PipelineFrame(kind, nframes + 1),
                 queued |-> _transcript_queue]
    /\ UNCHANGED <<_websocket, _receive_task, _transcript_queue, connection,
                   task_state, wire, received, downstream, nserver, teardown,
                   exceptClient>>

\* process_frame goes on from where it stands to its next await
ProcessFrameStep ==
    /\ pf.pc \in {"first", "sent", "after"}
    /\ \E out \in PushOutcomes :
          IF pf.pc \in {"first", "after"} /\ _transcript_queue # <<>>
          THEN DrainOne(pf.pc, out)
          ELSE IF pf.pc = "after"
          THEN \* the second loop is over: return
               /\ pf' = NoFrameCall
               /\ UNCHANGED <<_websocket, _receive_task, _transcript_queue,
                              connection, task_state, downstream, teardown>>
          ELSE IF pf.pc = "sent"
          THEN \* self._websocket.send has returned
               /\ PushCurrent(out)
               /\ UNCHANGED <<_websocket, _receive_task, _transcript_queue,
                              connection, task_state, teardown>>
          ELSE IF pf.frame.kind = "audio"
          THEN IF _websocket = None
               THEN /\ PushCurrent(out)
                    /\ UNCHANGED <<_websocket, _receive_task, _transcript_queue,
                                   connection, task_state, teardown>>
               ELSE \* await self._websocket.send(frame.audio), which raises
                    \* on a closed connection
                    /\ pf' = IF connection = "open"
                             THEN [pf EXCEPT !.pc = "sent"] ELSE NoFrameCall
                    /\ UNCHANGED <<_websocket, _receive_task, _transcript_queue,
                                   connection, task_state, downstream, teardown>>
          ELSE IF pf.frame.kind = "start"
          THEN \* super().process_frame: start, _connect, then the frame
               /\ DoConnect
               /\ PushCurrent(out)
               /\ UNCHANGED _transcript_queue
          ELSE IF pf.frame.kind \in {"end", "cancel"}
          THEN \* super().process_frame: stop or cancel, _disconnect, then
               \* the frame unless _disconnect raised
               /\ DoDisconnect
               /\ IF DisconnectRaises
                  THEN pf' = NoFrameCall /\ UNCHANGED downstream
                  ELSE PushCurrent(out)
               /\ UNCHANGED _transcript_queue
          ELSE \* super().process_frame pushes any other frame
               /\ PushCurrent(out)
               /\ UNCHANGED <<_websocket, _receive_task, _transcript_queue,
                              connection, task_state, teardown>>
    /\ UNCHANGED <<wire, received, nserver, nframes, exceptClient>>

ClientNext ==
    \/ ServerSend
    \/ ReceiveMessage
    \/ ReceiveClosed
    \/ ReceiveFails
    \/ ProcessFrameCall
    \/ ProcessFrameStep

ClientSpec == ClientInit /\ [][ClientNext]_<<clientVars, exceptClient>>

\* ------------------------------------------------------------ claims
Registered(x) == x \in Range(active_connections)

\* manager.disconnect has removed x: its handler has ended and x is no
\* longer in the registry
Disconnected(x) == pc[x] \in {"done", "raised"} /\ ~Registered(x)

\* task t's last call of broadcast has returned
Returned(t) == bc[t].status = "returned"

\* the number of sends broadcast b attempted to x
Attempts(b, x) == Cardinality({i \in 1..Len(b.visited) : b.visited[i] = x})

\* the last config frame delivered to a client
LastConfig(frames) ==
    LET I == {i \in 1..Len(frames) : frames[i].type = "config"}
    IN  frames[CHOOSE i \in I : \A j \in I : j <= i]

\* a text frame the protocol ignores: malformed JSON, an unrecognized type,
\* an unsupported language
Ignored(f) ==
    \/ f.json = "malformed"
    \/ f.json = "object" /\ f.type # "config"
    \/ f.json = "object" /\ f.type = "config" /\ f.language \notin {"hi", "ne", "mai"}

\* C1: a call of broadcast that has returned attempted exactly one send to
\* every connection that was registered during the whole call, and at most
\* one send to any connection.
C1_BroadcastReachesAll ==
    \A t \in Conns :
        Returned(t) =>
            /\ \A x \in bc[t].through : Attempts(bc[t], x) = 1
            /\ \A x \in Conns : Attempts(bc[t], x) <= 1

C3_EndedSessionUnregistered ==
    \A c \in Conns : pc[c] \in {"done", "raised"} => ~Registered(c)

\* C4: no send of a broadcast goes to a connection that manager.disconnect
\* has removed.
C4_NoSendAfterDisconnect ==
    ev.to # NoConn => ~Disconnected(ev.to)

\* a broadcast that began while x was registered goes on sending after x
\* has been removed
C4_Witness ==
    /\ ev.op = "BroadcastStep"
    /\ ev.to # NoConn
    /\ \E x \in Range(bc[ev.c].snapshot) :
          /\ Disconnected(x)
          /\ x \notin Range(bc[ev.c].visited)

\* C5: a config frame with a supported language L sets current_language to
\* L, its broadcast sends the config frame to every registered connection,
\* the sender included, and a transcription call is passed the shared
\* language.
C5_ConfigPropagation ==
    /\ (ev.op = "RecvText" /\ ev.frame.json = "object"
            /\ ev.frame.type = "config" /\ ev.frame.language \in {"hi", "ne", "mai"})
          => current_language = ev.frame.language
    /\ \A t \in Conns :
          (Returned(t) /\ bc[t].kind = "config") =>
              /\ t \in Range(bc[t].visited)
              /\ \A x \in bc[t].through : x \in Range(bc[t].visited)
    /\ (ev.op = "RecvBytes" /\ ev.lang # None) => ev.lang = current_language

\* C6: when no broadcast is in progress, the last config frame delivered to
\* every registered connection whose session is receiving and whose
\* transport is open carries current_language.
C6_LanguagesConverge ==
    (\A t \in Conns : pc[t] # "bcast") =>
        \A x \in Conns :
            (Registered(x) /\ pc[x] = "recv" /\ ~client_closed[x])
                => LastConfig(outbox[x]).language = current_language

\* C7: the step that handles an ignored text frame leaves current_language,
\* the registry and every client's frames as they were, starts no
\* broadcast and leaves the session receiving; current_language is always
\* one of hi, ne, mai.
C7_IgnoredControlFrames ==
    /\ [][(ev'.op = "RecvText" /\ Ignored(ev'.frame)) =>
             /\ current_language' = current_language
             /\ outbox' = outbox
             /\ bc' = bc
             /\ active_connections' = active_connections
             /\ pc'[ev'.c] = "recv"]_vars
    /\ [](current_language \in {"hi", "ne", "mai"})

\* a config frame naming an unsupported language has been handled after
\* the language had been changed, and the session is receiving
C7_Witness ==
    /\ ev.op = "RecvText"
    /\ ev.frame.language = "xx"
    /\ current_language = "ne"
    /\ pc[ev.c] = "recv"

\* C8, as claimed: whenever the transcription call raises, one error frame
\* goes to the originating connection and nothing to any other, the buffer
\* is emptied and the session is receiving.
C8_InferenceFailureAsClaimed ==
    [][(ev'.op = "RecvBytes" /\ ev'.res = Raise) =>
          /\ outbox' = [outbox EXCEPT ![ev'.c] =
                           Append(@, ErrorFrame("Inference failed"))]
          /\ audio_buffer'[ev'.c] = 0
          /\ pc'[ev'.c] = "recv"]_vars

\* C8, amended: the same when the client's transport is open; when the
\* client has closed it, nothing is delivered to anyone, and the session
\* ends and leaves the registry.
C8_InferenceFailure ==
    [][(ev'.op = "RecvBytes" /\ ev'.res = Raise) =>
          IF ~client_closed[ev'.c]
          THEN /\ outbox' = [outbox EXCEPT ![ev'.c] =
                                Append(@, ErrorFrame("Inference failed"))]
               /\ audio_buffer'[ev'.c] = 0
               /\ pc'[ev'.c] = "recv"
               /\ active_connections' = active_connections
               /\ bc' = bc
          ELSE /\ outbox' = outbox
               /\ pc'[ev'.c] \in {"done", "raised"}
               /\ ev'.c \notin Range(active_connections')]_vars

\* a session whose earlier inference failed has flushed the next buffer and
\* broadcast its transcription
C8_Witness ==
    /\ ev.op = "RecvBytes"
    /\ ev.res = "namaste"
    /\ ErrorFrame("Inference failed") \in Range(outbox[ev.c])
    /\ TranscriptionFrame("namaste", current_language) \in Range(outbox[ev.c])

\* C9: after a binary frame has been handled on an open transport the
\* session is still in its receive loop.
C9_ChunkNeverEndsSession ==
    (ev.op = "RecvBytes" /\ ~client_closed[ev.c])
        => pc[ev.c] \in {"recv", "bcast"}

\* C10: every flush with a non-empty result, and no other, broadcasts a
\* transcription frame to all registered connections; an empty result
\* sends nothing.
C10_TranscriptionBroadcast ==
    /\ \A t \in Conns :
          (Returned(t) /\ bc[t].kind = "flush") =>
              /\ bc[t].payload.type = "transcription"
              /\ bc[t].payload.text # ""
              /\ bc[t].payload.source = "stream"
              /\ \A x \in bc[t].through : x \in Range(bc[t].visited)
    /\ (ev.op = "RecvBytes" /\ ev.res \notin {"buffered", "ValueError", Raise, ""})
          => bc[ev.c].kind = "flush" /\ bc[ev.c].payload.text = ev.res
    /\ (ev.op = "RecvBytes" /\ ev.res = "") => ev.to = NoConn
    /\ \A x \in Conns : \A i \in 1..Len(outbox[x]) :
          outbox[x][i].type = "transcription" => outbox[x][i].text # ""

\* the frame is delivered to x before the frame after
Before(x, frame, after) ==
    \E p, q \in 1..Len(outbox[x]) :
        p < q /\ outbox[x][p] = frame /\ outbox[x][q] = after

\* C11: of two transcription broadcasts of one connection with different
\* frames, every connection that was registered during both calls, whose
\* session is open and whose transport the client has not closed, was
\* delivered the frame of the earlier before the frame of the later.
C11_PerConnectionOrder ==
    \A t \in Conns : \A i, j \in 1..Len(flushed[t]) :
        (i < j /\ flushed[t][i].payload # flushed[t][j].payload) =>
            \A x \in flushed[t][i].through \cap flushed[t][j].through :
                (pc[x] \in Open /\ ~client_closed[x])
                    => Before(x, flushed[t][i].payload, flushed[t][j].payload)

\* C13: a binary frame is only buffered exactly when the buffer stays below
\* 64000 bytes; otherwise the whole buffer is passed to the transcriber and
\* the buffer is empty once the flush is over, whatever the inference did;
\* a session waiting for its next frame holds fewer than 64000 bytes.
C13_DrainOnThreshold ==
    /\ \A c \in Conns : pc[c] = "recv" => audio_buffer[c] < BUFFER_THRESHOLD
    /\ ev.op = "RecvBytes" =>
          IF ev.res = "buffered"
          THEN /\ audio_buffer[ev.c] > 0
               /\ audio_buffer[ev.c] < BUFFER_THRESHOLD
               /\ pc[ev.c] = "recv"
          ELSE /\ ev.lang # None
               /\ pc[ev.c] # "bcast" => audio_buffer[ev.c] = 0
    /\ (ev.op = "BroadcastStep" /\ bc[ev.c].kind = "flush" /\ Returned(ev.c))
          => audio_buffer[ev.c] = 0

\* C14: a step of one session leaves the buffer of every other session as it
\* was, and what a binary frame does to a session's buffer (growing it, or
\* flushing it, and with which outcome) is determined by that session's own
\* buffer and the frame.
C14_SessionIsolation ==
    [][/\ \A x \in Conns : x # ev'.c => audio_buffer'[x] = audio_buffer[x]
       /\ ev'.op = "RecvBytes" =>
              \E n \in ChunkSizes, out \in ModelOutputs :
                  /\ ev'.res = FlushResult(audio_buffer[ev'.c] + n, out)
                  /\ ev'.res = "buffered"
                        => audio_buffer'[ev'.c] = audio_buffer[ev'.c] + n]_vars

\* two sessions hold 32000 bytes each: the frame the second received was
\* buffered, though the two buffers together reach the threshold
C14_Witness ==
    /\ ev.op = "RecvBytes"
    /\ ev.res = "buffered"
    /\ \E a \in Conns :
          /\ a # ev.c
          /\ audio_buffer[a] = 32000
          /\ audio_buffer[ev.c] = 32000

\* C15: the first frame delivered to a connection is the config frame of
\* its connect step, carrying current_language; every other config frame
\* delivered is the payload of a broadcast begun by a config message with a
\* supported language, which it carries.
C15_ConfigOnConnect ==
    /\ [](\A x \in Conns :
             pc[x] # "idle" => /\ Len(outbox[x]) >= 1
                               /\ outbox[x][1].type = "config")
    /\ [][/\ \A x \in Conns :
               outbox'[x] # outbox[x] =>
                   (LET f == outbox'[x][Len(outbox'[x])]
                    IN  /\ outbox'[x] = Append(outbox[x], f)
                        /\ (f.type = "config") =>
                              (\/ /\ ev'.op = "Connect"
                                  /\ ev'.c = x
                                  /\ outbox[x] = <<>>
                                  /\ f.language = current_language
                               \/ /\ ev'.op \in {"RecvText", "BroadcastStep"}
                                  /\ ev'.to = x
                                  /\ bc'[ev'.c].kind = "config"
                                  /\ f = bc'[ev'.c].payload))
          /\ (ev'.op = "RecvText" /\ bc'[ev'.c] # bc[ev'.c]) =>
                   /\ ev'.frame.type = "config"
                   /\ ev'.frame.language \in {"hi", "ne", "mai"}
                   /\ bc'[ev'.c].kind = "config"
                   /\ bc'[ev'.c].payload.type = "config"
                   /\ bc'[ev'.c].payload.language = ev'.frame.language
          /\ ev'.op = "BroadcastStep" =>
                   /\ bc'[ev'.c].kind = bc[ev'.c].kind
                   /\ bc'[ev'.c].payload = bc[ev'.c].payload
          /\ \A t \in Conns :
                   (bc'[t].kind = "config" /\ bc[t].kind # "config")
                       => ev'.op = "RecvText" /\ ev'.c = t]_vars

\* a connection opened after the language had been changed to ne was sent
\* ne first, and later the echo of a change to mai
C15_Witness ==
    \E x \in Conns :
        /\ Len(outbox[x]) >= 2
        /\ outbox[x][1] = [type |-> "config", language |-> "ne"]
        /\ outbox[x][2] = [type |-> "config", language |-> "mai"]

\* the bytes of a list of frames, in order
RECURSIVE Concat(_)
Concat(cs) == IF cs = <<>> THEN <<>> ELSE Head(cs) \o Concat(Tail(cs))

RECURSIVE SumLen(_)
SumLen(cs) == IF cs = <<>> THEN 0 ELSE Len(Head(cs)) + SumLen(Tail(cs))

\* C12: the buffer holds the frames appended since it was last emptied, in
\* order, so its length is the sum of their lengths; the conversion of a
\* buffer of even length gives half as many samples as the buffer had
\* bytes, sample i being the little-endian two's complement int16 of bytes
\* 2i-1 and 2i over 32768, and leaves the buffer empty.
C12_BufferAccounting ==
    /\ [](/\ audio_bytes = Concat(chunks_in)
          /\ Len(audio_bytes) = SumLen(chunks_in)
          /\ (audio_np # None /\ Len(converted) % 2 = 0) =>
                /\ audio_np # "ValueError"
                /\ 2 * Len(audio_np) = Len(converted)
                /\ \A i \in 1..Len(audio_np) :
                      LET lo == converted[2 * i - 1]
                          hi == converted[2 * i]
                      IN  /\ audio_np[i].den = 32768
                          /\ audio_np[i].num \in -32768..32767
                          /\ (audio_np[i].num - (lo + 256 * hi)) % 65536 = 0)
    /\ [][(n_appends' = n_appends /\ Len(audio_bytes) % 2 = 0) =>
             /\ converted' = audio_bytes
             /\ audio_bytes' = <<>>
             /\ chunks_in' = <<>>]_bufferVars

\* two frames of two bytes were appended and converted to the two samples
\* 32767/32768 and -32768/32768
C12_Witness ==
    /\ Len(converted) = 4
    /\ audio_np = <<[num |-> 32767, den |-> 32768],
                    [num |-> -32768, den |-> 32768]>>
    /\ audio_bytes = <<>>

\* ---- C16 ----
\* a call of process, seen as a step
Called == ncalls' = ncalls + 1
\* the call came to the clock update (line 257)
CameToClock(c) == c.stage \in {"pipeline", "done"}

\* C16 as stated: every call of process with a chunk of positive length
\* leaves the clock strictly greater, and the clock always equals the
\* samples processed so far divided by the sample rate.  It does not hold:
\* without a pipeline the clock stays at 0.0, and the sum of the rounded
\* quotients is not the rounded quotient of the sum (3/16000 three times is
\* not 9/16000).
C16_ClockAsClaimed ==
    /\ [][(Called /\ call'.w.n > 0) => FLess(clock, clock')]_diarizerVars
    /\ [](clock = FDiv(SumSeq(lens), SAMPLING_RATE))

\* C16, amended: a call that comes to the clock update had a chunk of
\* positive length and leaves the clock at the double sum of the clock
\* before and new_samples / 16000, strictly greater than before; every other
\* call (no pipeline, a conversion or shape error) leaves the clock as it
\* was; the clock never decreases; and it equals the samples processed
\* divided by the sample rate whenever every chunk length is a multiple of
\* 125 (durations a double holds exactly).
C16_ClockMonotone ==
    /\ [][Called =>
            IF CameToClock(call')
            THEN /\ call'.w.n > 0
                 /\ clock' = FAdd(clock, FDiv(call'.w.n, SAMPLING_RATE))
                 /\ FLess(clock, clock')
            ELSE clock' = clock]_diarizerVars
    /\ [][~FLess(clock', clock)]_diarizerVars
    /\ []((\A i \in 1 .. Len(lens) : lens[i] % 125 = 0)
            => clock = FDiv(SumSeq(lens), SAMPLING_RATE))

\* three chunks of three samples have been processed, and the clock is not
\* 9/16000
C16_Witness ==
    /\ lens = <<3, 3, 3>>
    /\ CameToClock(call)
    /\ clock # FDiv(9, SAMPLING_RATE)
    /\ FLess(FDiv(6, SAMPLING_RATE), clock)

\* ---- C17 ----
\* C17: when the pipeline is available and process is called with a chunk
\* of at least WindowCapacity samples, the window after the call is the last
\* WindowCapacity samples of that chunk, in order, whatever it held before
\* (nothing yet on a first call).
C17_WindowReplaced ==
    [][(Called /\ pipeline = "ready" /\ call'.w.n >= WindowCapacity) =>
          /\ CameToClock(call')
          /\ Len(window'.samples) = WindowCapacity
          /\ \A i \in 1 .. WindowCapacity :
                window'.samples[i]
                    = call'.w.first + (call'.w.n - WindowCapacity) + (i - 1)]_diarizerVars

\* a chunk longer than the window has replaced a window that held the
\* samples of an earlier chunk
C17_Witness ==
    /\ Len(lens) >= 2
    /\ lens[Len(lens) - 1] < WindowCapacity
    /\ call.w.n > WindowCapacity
    /\ call.w.ndim = 2
    /\ CameToClock(call)
    /\ window.samples[1] = call.w.first + (call.w.n - WindowCapacity)
    /\ window.samples[WindowCapacity] = call.w.first + call.w.n - 1

\* ---- C18 ----
\* no track of the pipeline's annotation lasts more than 50 ms
NoSurvivor(out) == \A i \in 1 .. Len(out.tracks) : ~Survives(out.tracks[i])

\* C18: when the pipeline returns and no track survives the 50 ms filter,
\* process returns the label remembered by an earlier call if there is one
\* and "Identifying..." otherwise, and the remembered label stays as it was.
C18_Fallback ==
    [][(Called /\ call'.stage = "done" /\ NoSurvivor(call'.out)) =>
          /\ ~call'.raised
          /\ call'.ret = (IF last_speaker # None THEN last_speaker ELSE IDENTIFYING)
          /\ last_speaker' = last_speaker]_diarizerVars

\* "Speaker 1" was remembered, the only track of the last call lasted
\* exactly 50 ms, and the call returned "Speaker 1"
C18_Witness ==
    /\ call.stage = "done"
    /\ call.out.tracks = <<Track(50, "speaker0")>>
    /\ last_speaker = "Speaker 1"
    /\ call.ret = "Speaker 1"

\* ---- C19 ----
\* the call ended without a label: no pipeline, or an exception caught
CallFailed(c) == c.stage \in {"off", "convert", "assign", "pipeline"}
\* a chunk as the router passes it: (n,) or (1, n) with n >= 1
WellFormed(w) == w.ndim \in {1, 2} /\ w.n >= 1
\* the call came to the pipeline, and to a label if the pipeline returned
ProcessedNormally(c) ==
    /\ CameToClock(c)
    /\ ~c.out.raises => (c.stage = "done" /\ c.ret # None /\ ~c.raised)

\* a failed call raises nothing, returns None and leaves the remembered
\* label alone
FailureContained ==
    [][(Called /\ CallFailed(call')) =>
          /\ ~call'.raised
          /\ call'.ret = None
          /\ last_speaker' = last_speaker]_diarizerVars

\* C19: a failed call is contained, and the call after a failed one, given
\* a well-formed chunk and an available pipeline, is processed normally.
\* The second part does not hold: a chunk (1, n, k) with n >=
\* WindowCapacity becomes the window before the pipeline rejects it, and the
\* next well-formed chunk shorter than the window cannot be written into it.
C19_FailureContainment ==
    /\ FailureContained
    /\ [][(Called /\ CallFailed(call) /\ pipeline = "ready" /\ WellFormed(call'.w))
            => ProcessedNormally(call')]_diarizerVars

\* What does hold of C19: a failed call is contained; the call after a
\* failed one, given a well-formed chunk and an available pipeline, is
\* processed normally when the window is None or an array (1,
\* WindowCapacity), or when the chunk has at least WindowCapacity samples (it
\* replaces the window); on a window left three-dimensional by a failed
\* call, a well-formed chunk of more than one and fewer than WindowCapacity
\* samples fails again.
C19_ContainmentOnMonoWindow ==
    /\ FailureContained
    /\ [][(Called /\ CallFailed(call) /\ pipeline = "ready" /\ WellFormed(call'.w)
              /\ (window.trail = 0 \/ call'.w.n >= WindowCapacity))
            => ProcessedNormally(call')]_diarizerVars
    /\ [][(Called /\ pipeline = "ready" /\ WellFormed(call'.w)
              /\ window.trail # 0 /\ 1 < call'.w.n /\ call'.w.n < WindowCapacity)
            => (call'.stage = "assign" /\ call'.ret = None /\ ~call'.raised)]_diarizerVars

\* the first call failed before the clock update, the second was given two
\* samples and returned a label
C19_Witness ==
    /\ pipeline = "ready"
    /\ ncalls = 2
    /\ lens = <<2>>
    /\ call.stage = "done"
    /\ call.ret = "Speaker 1"
    /\ window.samples[1] = 0
    /\ window.samples[WindowCapacity] = 11

\* ---- C20 ----
\* the valid words of the call whose midpoint lies in the closed interval
\* of the turn, by their places in word_timestamps
Attached(seg) ==
    {j \in 1 .. Len(word_timestamps) :
        LET w == word_timestamps[j]
        IN  /\ w.word # <<>> /\ w.start # NoTime /\ w.end # NoTime
            /\ ~FLess(FHalf(FAdd(Time(w.start), Time(w.end))), Time(seg.start))
            /\ ~FLess(Time(seg.end), FHalf(FAdd(Time(w.start), Time(w.end))))}
RECURSIVE WordsAt(_, _)
WordsAt(j, J) ==
    IF j > Len(word_timestamps) THEN <<>>
    ELSE (IF j \in J THEN <<word_timestamps[j].word>> ELSE <<>>) \o WordsAt(j + 1, J)

\* the entry is the turn with the text the claim gives it
AlignedEntry(e, seg) ==
    /\ e.speaker = seg.speaker
    /\ e.start = seg.start
    /\ e.end = seg.end
    /\ "text" \in e.keys
    /\ e.text = Join(WordsAt(1, Attached(seg)))

\* the example of the claim
ExampleWords == <<Word(One, 0, 50), Word(Two, 60, 100)>>
ExampleTurns == <<Turn("A", 0, 55), Turn("B", 55, 120)>>

\* C20: the call returns one entry per turn, in the order of the turns,
\* with the turn's speaker, start and end and a text that is the
\* single-space join of the valid words whose midpoint lies in the turn's
\* closed interval; for the example the texts are "one" and "two".  It does
\* not hold when word_timestamps is empty: the turns come back as they were
\* given, without a text.
C20_MidpointAlignment ==
    result.returned =>
        /\ Len(result.entries) = Len(diarization)
        /\ \A i \in 1 .. Len(diarization) :
              AlignedEntry(result.entries[i], diarization[i])
        /\ (word_timestamps = ExampleWords /\ diarization = ExampleTurns)
              => (result.entries[1].text = One /\ result.entries[2].text = Two)

\* What does hold of C20: the same, for a call with at least one entry in
\* word_timestamps (valid or not).
C20_MidpointAlignmentWithWords ==
    (result.returned /\ word_timestamps # <<>>) => C20_MidpointAlignment

\* the example of the claim has been aligned: "one" for A, "two" for B
C20_Witness ==
    /\ result.returned
    /\ word_timestamps = ExampleWords
    /\ diarization = ExampleTurns
    /\ Len(result.entries) = 2
    /\ result.entries[1].text = One
    /\ result.entries[2].text = Two

\* a word whose midpoint is the boundary 0.55 is in the text of both turns
C20_BoundaryWitness ==
    /\ result.returned
    /\ word_timestamps = <<Word(Mid, 50, 60)>>
    /\ diarization = ExampleTurns
    /\ result.entries[1].text = Mid
    /\ result.entries[2].text = Mid

\* ---- C21 ----
\* C21: with no turns the call returns the empty list; with no words and
\* at least one turn it returns one entry per turn, each with a text that is
\* the empty string.  The second part does not hold: the turns come back as
\* they were given, without a text.
C21_EmptyInputs ==
    result.returned =>
        /\ diarization = <<>> => result.entries = <<>>
        /\ (word_timestamps = <<>> /\ diarization # <<>>) =>
              /\ Len(result.entries) = Len(diarization)
              /\ \A i \in 1 .. Len(diarization) :
                    /\ "text" \in result.entries[i].keys
                    /\ result.entries[i].text = <<>>

\* What does hold of C21: no turns, no entries, whatever the words; and
\* with no words the entries are the turns, in order, as they were given.
C21_EmptyTurnsOrEcho ==
    result.returned =>
        /\ diarization = <<>> => result.entries = <<>>
        /\ (word_timestamps = <<>> /\ diarization # <<>>) =>
              result.entries = [i \in 1 .. Len(diarization) |-> AsGiven(diarization[i])]

\* ---- C22 ----
\* the entry lacks a start or an end
Malformed(item) == item.start = NoTime \/ item.end = NoTime
WellFormedOnly(items) ==
    LET Ok(item) == ~Malformed(item)
    IN  SelectSeq(items, Ok)
SomeMalformed == \E j \in 1 .. Len(word_timestamps) : Malformed(word_timestamps[j])

\* C22: a call whose word list has entries without a start or an end
\* returns, and returns what it would return for the word list without
\* them.  It does not hold when no entry is left: the call with the
\* malformed entries returns texts that are empty strings, the call without
\* them returns the turns with no text.
C22_MalformedDropped ==
    (result.returned /\ SomeMalformed) =>
        result.entries
            = add_text_to_diarization_segments(WellFormedOnly(word_timestamps),
                                               diarization)

\* What does hold of C22: the same, when some entry has a start and an end.
C22_MalformedDroppedSomeLeft ==
    (result.returned /\ SomeMalformed /\ WellFormedOnly(word_timestamps) # <<>>) =>
        result.entries
            = add_text_to_diarization_segments(WellFormedOnly(word_timestamps),
                                               diarization)

\* a call with a two-element tuple and a well-formed word has returned the
\* text of the well-formed word
C22_Witness ==
    /\ result.returned
    /\ word_timestamps = <<ShortTuple(Two, 60), Word(One, 0, 50)>>
    /\ diarization = ExampleTurns
    /\ result.entries[1].text = One
    /\ result.entries[2].text = <<>>

\* ---- C23 ----
\* C23: a call of transcribe_tensor returns the empty string when the model
\* returns nothing (None or an empty text), returns the model's text as it
\* is otherwise, and raises when the model raises.
C23_TranscriberResult ==
    \A i \in 1 .. Len(transcriptions) :
        LET c == transcriptions[i]
        IN  /\ c.out \in {None, ""} => c.res = ""
            /\ c.out \notin {None, "", Raise} => c.res = c.out
            /\ c.out = Raise => (c.res = Raise /\ c.res # "")

\* three calls: the model raised and so did the call, the model returned
\* nothing and the call returned "", the model returned a text and the call
\* returned it
C23_Witness ==
    /\ Len(transcriptions) = 3
    /\ transcriptions[1].out = Raise /\ transcriptions[1].res = Raise
    /\ transcriptions[2].out = None /\ transcriptions[2].res = ""
    /\ transcriptions[3].out = "namaste" /\ transcriptions[3].res = "namaste"

\* ---- C24 ----
\* C24: when the ASR model is not loaded, no session is ever in the receive
\* loop or in a broadcast; a session leaves the state after the config frame
\* only by the check of the model, which closes the websocket with code
\* 1011 and ends the session; no session buffers a byte, no transcription is
\* broadcast, nothing but the config frame of the connect is sent, and no
\* frame of a client is handled.
C24_ModelUnavailable ==
    /\ [](~asr_loaded =>
            /\ nmsgs = 0
            /\ \A c \in Conns :
                  /\ pc[c] \in {"idle", "connected", "done", "raised"}
                  /\ audio_buffer[c] = 0
                  /\ bc[c] = NoBroadcast
                  /\ flushed[c] = <<>>
                  /\ Range(outbox[c]) \subseteq {ConfigFrame(InitialLanguage)})
    /\ [][\A c \in Conns :
            (~asr_loaded /\ pc[c] = "connected" /\ pc'[c] # "connected") =>
                /\ ev' = Ev("CheckModel", c, NoText, CLOSE_UNAVAILABLE, None, NoConn)
                /\ pc'[c] \in {"done", "raised"}
                /\ pc'[c] = "raised" => client_closed[c]]_vars

\* without a model every connection has been closed with code 1011 and
\* every session has ended
C24_Witness ==
    /\ ~asr_loaded
    /\ \A c \in Conns : pc[c] = "done" /\ Len(outbox[c]) = 1
    /\ ev.op = "CheckModel"
    /\ ev.res = CLOSE_UNAVAILABLE

\* ---- C25 ----
\* C25: no step of a call of broadcast, from its start to its return,
\* changes the registry; a connection the send to which failed is still
\* registered after the call unless its own handler has ended.
C25_BroadcastKeepsRegistry ==
    /\ [][(\E t \in Conns : bc'[t] # bc[t])
            => active_connections' = active_connections]_vars
    /\ [](\A t \in Conns :
            Returned(t) =>
                \A x \in bc[t].failed :
                    Registered(x) \/ pc[x] \in {"done", "raised"})

\* a broadcast has just returned, a send of it failed, and the connection
\* it failed for is still registered, its handler still running
C25_Witness ==
    /\ ev.op = "BroadcastStep"
    /\ Returned(ev.c)
    /\ \E x \in bc[ev.c].failed :
          /\ Registered(x)
          /\ pc[x] \in Open
          /\ client_closed[x]

C27_CropIntervalAsClaimed ==
    [][(Called /\ call'.stage = "done") =>
          focus' = [start |-> SumSeq(lens), end |-> SumSeq(lens')]]_diarizerVars

\* C27, amended: in every call that comes to the crop, the annotation is
\* cropped to the last new_samples sample periods of the window's extent,
\* which runs from the clock before the advance to WindowCapacity sample
\* periods after it; the interval lasts as long as the call's chunk, and for
\* a chunk of at most WindowCapacity samples it is where the window holds
\* the samples of this call.
C27_CropInterval ==
    [][(Called /\ call'.stage = "done") =>
          LET n == call'.w.n
              before == SumSeq(lens)
          IN  /\ focus'.end = before + WindowCapacity
              /\ focus'.start = before + WindowCapacity - n
              /\ focus'.end - focus'.start = SumSeq(lens') - before
              /\ n <= WindowCapacity =>
                    \A i \in 1 .. n :
                        window'.samples[focus'.start - before + i]
                            = call'.w.first + (i - 1)]_diarizerVars

\* the second chunk of two samples has been cropped to the last two sample
\* periods of a window that starts at sample 2
C27_Witness ==
    /\ call.stage = "done"
    /\ lens = <<2, 2>>
    /\ focus = [start |-> WindowCapacity, end |-> 2 + WindowCapacity]
    /\ window.samples[WindowCapacity] = call.w.first + 1

\* ---- C28 ----
\* the tracks of an annotation that last more than 50 ms, by their places
Surviving(out) == {i \in 1 .. Len(out.tracks) : out.tracks[i].ms > 50}
With(out, I, l) == {i \in I : out.tracks[i].label = l}
Earliest(I) == CHOOSE i \in I : \A j \in I : i <= j
\* "speakerN" as "Speaker N"
Normalized(l, name) ==
    \/ l = "speaker0" /\ name = "Speaker 0"
    \/ l = "speaker1" /\ name = "Speaker 1"
    \/ l = "A" /\ name = "Speaker A"
\* name is the normalized form of the label with the most tracks among
\* those at the places I, the one met first among labels with equally many
Dominant(out, I, name) ==
    \E i \in I :
        LET l == out.tracks[i].label
        IN  /\ Normalized(l, name)
            /\ \A j \in I :
                  LET m == out.tracks[j].label
                      nl == Cardinality(With(out, I, l))
                      nm == Cardinality(With(out, I, m))
                  IN  m # l =>
                        \/ nl > nm
                        \/ nl = nm /\ Earliest(With(out, I, l)) < Earliest(With(out, I, m))

CountedAre(I) ==
    (Called /\ call'.stage = "done") =>
        IF I = {}
        THEN /\ call'.ret = (IF last_speaker # None THEN last_speaker ELSE IDENTIFYING)
             /\ last_speaker' = last_speaker
        ELSE /\ Dominant(call'.out, I, call'.ret)
             /\ last_speaker' = call'.ret

\* C29 as stated: the tracks counted are those that last 50 ms or more.
\* It does not hold: a track of exactly 50 ms is discarded.
C29_ThresholdAsClaimed ==
    [][CountedAre({i \in 1 .. Len(call'.out.tracks) : call'.out.tracks[i].ms >= 50})]_diarizerVars

\* C29, amended: the tracks counted are those that last more than 50 ms; a
\* track of 50 ms or less is discarded.
C29_Threshold ==
    [][CountedAre({i \in 1 .. Len(call'.out.tracks) : call'.out.tracks[i].ms > 50})]_diarizerVars

\* one track of 500 ms against two of exactly 50 ms with another label: the
\* call returned the label of the first
C29_Witness ==
    /\ call.stage = "done"
    /\ call.out.tracks
         = <<Track(500, "speaker0"), Track(50, "speaker1"), Track(50, "speaker1")>>
    /\ call.ret = "Speaker 0"
    /\ last_speaker = "Speaker 0"

\* ---- C30 ----
\* the orders in which the elements of I can be listed
Orders(I) ==
    {p \in [1 .. Cardinality(I) -> I] : \A a, b \in 1 .. Cardinality(I) : a # b => p[a] # p[b]}
\* the text lists the words at the places I by non-decreasing start
InTemporalOrder(text, I) ==
    \E p \in Orders(I) :
        /\ \A a \in 1 .. (Cardinality(I) - 1) :
              word_timestamps[p[a]].start <= word_timestamps[p[a + 1]].start
        /\ text = Join([a \in 1 .. Cardinality(I) |-> word_timestamps[p[a]].word])
\* the valid words of the call come by non-decreasing start
WordsSorted ==
    \A a, b \in 1 .. Len(word_timestamps) :
        (a < b /\ ValidWord(word_timestamps[a]) /\ ValidWord(word_timestamps[b]))
            => word_timestamps[a].start <= word_timestamps[b].start

\* C30: the text of every entry lists the words attached to the turn by
\* non-decreasing start time, whatever the order of the word list.  It does
\* not hold: the words are listed in the order of the word list.
C30_TemporalOrder ==
    result.returned =>
        \A i \in 1 .. Len(result.entries) :
            "text" \in result.entries[i].keys
                => InTemporalOrder(result.entries[i].text, Attached(diarization[i]))

\* What does hold of C30: the same, for a word list whose valid words come
\* by non-decreasing start time.
C30_TemporalOrderOfSortedWords ==
    (result.returned /\ WordsSorted) => C30_TemporalOrder

\* two words in temporal order in the word list and in the text of a turn
C30_Witness ==
    /\ result.returned
    /\ word_timestamps = <<Word(Mid, 50, 60), Word(Two, 60, 100)>>
    /\ diarization = <<Turn("B", 55, 120)>>
    /\ result.entries[1].text = Mid \o <<" ">> \o Two

\* ---- C31 ----
\* the place of the first space of a text, or one past its end
FirstSpace(text) ==
    CHOOSE k \in 1 .. (Len(text) + 1) :
        /\ k = Len(text) + 1 \/ text[k] = " "
        /\ \A m \in 1 .. (k - 1) : text[m] # " "
\* the pieces of a text between its spaces
RECURSIVE Tokens(_)
Tokens(text) ==
    IF text = <<>> THEN <<>>
    ELSE LET k == FirstSpace(text)
         IN  <<SubSeq(text, 1, k - 1)>>
                \o (IF k >= Len(text) THEN <<>>
                    ELSE Tokens(SubSeq(text, k + 1, Len(text))))
\* the places of the valid words of the call
ValidPlaces ==
    {j \in 1 .. Len(word_timestamps) :
        LET w == word_timestamps[j]
        IN  w.form # "short" /\ w.word # <<>> /\ w.start # NoTime /\ w.end # NoTime}
\* how many times the word is a piece of the text of the entry
Occurrences(e, word) ==
    LET toks == IF "text" \in e.keys THEN Tokens(e.text) ELSE <<>>
    IN  Cardinality({k \in 1 .. Len(toks) : toks[k] = word})
\* the turns at the places a and b have no instant in common
Disjoint(a, b) ==
    \/ FLess(Time(diarization[a].end), Time(diarization[b].start))
    \/ FLess(Time(diarization[b].end), Time(diarization[a].start))
\* the midpoint of the word at j is the end of turn a and the start of turn b
OnSharedBoundary(j, a, b) ==
    LET w == word_timestamps[j]
        mid == FHalf(FAdd(Time(w.start), Time(w.end)))
    IN  /\ diarization[a].end = diarization[b].start
        /\ mid = Time(diarization[a].end)

\* C31: every piece of every text is the word of a valid entry, whole, and
\* a word is a piece of the text of a turn once for each valid entry with
\* that word whose midpoint lies in the closed interval of the turn: so a
\* word given once is in the text of at most one of two turns with no instant
\* in common, in the text of both turns when its midpoint is their shared
\* boundary, and in no text when its midpoint lies in no turn.
C31_WholeWordsByMidpoint ==
    result.returned =>
        /\ Len(result.entries) = Len(diarization)
        /\ \A i \in 1 .. Len(diarization) :
              LET e == result.entries[i]
                  toks == IF "text" \in e.keys THEN Tokens(e.text) ELSE <<>>
              IN  /\ \A k \in 1 .. Len(toks) :
                        \E j \in ValidPlaces : word_timestamps[j].word = toks[k]
                  /\ \A j \in ValidPlaces :
                        Occurrences(e, word_timestamps[j].word)
                            = Cardinality({m \in Attached(diarization[i]) \cap ValidPlaces :
                                              word_timestamps[m].word = word_timestamps[j].word})
        /\ \A j \in ValidPlaces :
              LET word == word_timestamps[j].word
                  once == \A m \in ValidPlaces : word_timestamps[m].word = word => m = j
              IN  /\ \A a, b \in 1 .. Len(diarization) :
                        (once /\ a # b /\ Disjoint(a, b)) =>
                            ~(/\ Occurrences(result.entries[a], word) > 0
                              /\ Occurrences(result.entries[b], word) > 0)
                  /\ \A a, b \in 1 .. Len(diarization) :
                        OnSharedBoundary(j, a, b) =>
                            /\ Occurrences(result.entries[a], word) > 0
                            /\ Occurrences(result.entries[b], word) > 0
                  /\ (once /\ \A i \in 1 .. Len(diarization) : j \notin Attached(diarization[i]))
                        => \A i \in 1 .. Len(diarization) :
                              Occurrences(result.entries[i], word) = 0

\* a word whose midpoint is the boundary shared by two turns is in the text
\* of both, and a word whose midpoint is in neither is in no text
C31_Witness ==
    /\ result.returned
    /\ word_timestamps = <<Word(Mid, 50, 60), Word(Far, 130, 140)>>
    /\ diarization = <<Turn("A", 0, 55), Turn("B", 55, 120)>>
    /\ OnSharedBoundary(1, 1, 2)
    /\ Tokens(result.entries[1].text) = <<Mid>>
    /\ Tokens(result.entries[2].text) = <<Mid>>

\* a word is in the text of one of two turns with no instant in common
C31_DisjointWitness ==
    /\ result.returned
    /\ word_timestamps = <<Word(Mid, 50, 60)>>
    /\ diarization = <<Turn("A", 0, 55), Turn("C", 60, 100)>>
    /\ Disjoint(1, 2)
    /\ result.entries[1].text = Mid
    /\ result.entries[2].text = <<>>

\* ---- C32 ----
\* the step handled a binary frame that brought the buffer to the threshold
\* and gave a waveform (the conversion did not fail)
FlushesWaveform ==
    /\ ev'.op = "RecvBytes"
    /\ ev'.res \notin {"buffered", "ValueError"}

\* C32: every step that flushes a waveform from a session's buffer passes it
\* to the transcriber and to the process method of a StreamingDiarizer.  It
\* does not hold: the handler creates no StreamingDiarizer and calls none,
\* so no flush is a call of process.
C32_FlushDiarized ==
    [][FlushesWaveform => (ev'.lang # None /\ ncalls' = ncalls + 1)]_<<vars, diarizerVars>>

\* What does hold of C32: every flushed waveform is passed to the
\* transcriber, and no step of a session touches a diarizer.
C32_FlushTranscribedOnly ==
    [][/\ FlushesWaveform => ev'.lang = current_language
       /\ UNCHANGED diarizerVars]_<<vars, diarizerVars>>

\* a session has flushed a waveform and broadcast its transcription
C32_Witness ==
    /\ ev.op = "RecvBytes"
    /\ ev.res \notin {"buffered", "ValueError", Raise, ""}
    /\ ncalls = 0
    /\ window = NoWindow

\* ---- C33 ----
\* the frames the step has delivered to x
Appended(x) == SubSeq(outbox'[x], Len(outbox[x]) + 1, Len(outbox'[x]))
\* every transcription frame the step has delivered is the frame f
DeliversOnly(f) ==
    \A x \in Conns : \A k \in 1 .. Len(Appended(x)) :
        Appended(x)[k].type = "transcription" => Appended(x)[k] = f
\* the step has delivered no transcription frame
DeliversNone ==
    \A x \in Conns : \A k \in 1 .. Len(Appended(x)) :
        Appended(x)[k].type # "transcription"
\* the step is t's call of transcribe_tensor, and the call returned a text
Transcribes(t) ==
    /\ ev'.op = "RecvBytes" /\ ev'.c = t
    /\ ev'.res \notin {"buffered", "ValueError", Raise, ""}
\* the step resumes t's broadcast of a transcription
ResumesTranscription(t) ==
    /\ ev'.op = "BroadcastStep" /\ ev'.c = t
    /\ bc[t].kind = "flush"

\* C33: a transcription frame carries the text a call of transcribe_tensor
\* returned and the language code passed to that call.  The step of the
\* call delivers no other transcription frame and leaves that frame as the
\* payload of the broadcast; a step resuming the broadcast delivers its
\* payload and nothing else, and keeps it; no step of another connection,
\* a config frame included, changes the payload of a suspended broadcast;
\* and no other step delivers a transcription frame.
C33_LanguageConsistency ==
    [][\A t \in Conns :
          /\ Transcribes(t) =>
                /\ ev'.lang = current_language
                /\ DeliversOnly(TranscriptionFrame(ev'.res, ev'.lang))
                /\ bc'[t].payload = TranscriptionFrame(ev'.res, ev'.lang)
          /\ ResumesTranscription(t) =>
                /\ DeliversOnly(bc[t].payload)
                /\ bc'[t].payload = bc[t].payload
          /\ (pc[t] = "bcast" /\ ev'.c # t) => bc'[t] = bc[t]
          /\ (ev'.c = t /\ ~Transcribes(t) /\ ~ResumesTranscription(t)) => DeliversNone
      ]_vars

\* a suspended broadcast of a transcription has been resumed after a config
\* frame of another connection changed the language, and has delivered its
\* frame with the language of the call
C33_Witness ==
    /\ ev.op = "BroadcastStep"
    /\ bc[ev.c].kind = "flush"
    /\ bc[ev.c].payload.language # current_language
    /\ \E x \in Conns :
          /\ x # ev.c
          /\ outbox[x] # <<>>
          /\ outbox[x][Len(outbox[x])] = bc[ev.c].payload

\* ---- C34 ----
\* the window after the chunk w has been written to the window buf: the
\* last samples of a chunk that fills it, otherwise what the window held,
\* moved to the left by the length of the chunk, and then the chunk
WindowWith(buf, w) ==
    LET old == IF buf = NoWindow THEN [i \in 1 .. WindowCapacity |-> 0] ELSE buf.samples
        new == [i \in 1 .. w.n |-> w.first + i - 1]
        all == IF w.n >= WindowCapacity THEN new ELSE old \o new
    IN  [trail |-> IF w.n >= WindowCapacity THEN w.trail ELSE buf.trail,
         samples |-> SubSeq(all, Len(all) - WindowCapacity + 1, Len(all))]

\* C34: a call of process in which the pipeline raises returns None and
\* raises nothing; the window holds the chunk of the call, the clock has
\* been advanced by the duration of the chunk, and the last speaker is
\* what it was before the call.
C34_NoRollback ==
    [][(call'.stage = "pipeline" /\ call'.out.raises) =>
          /\ call'.ret = None
          /\ ~call'.raised
          /\ window' = WindowWith(window, call'.w)
          /\ clock' = FAdd(clock, FDiv(call'.w.n, 16000))
          /\ call'.w.n > 0 /\ clock' # clock
          /\ last_speaker' = last_speaker
      ]_<<diarizerVars, exceptDiarizer>>

\* after a call that named a speaker, the pipeline has raised in a call
\* with a chunk of two samples: the window ends with the chunk, the clock
\* is past the first call's, and the speaker is still remembered
C34_Witness ==
    /\ ncalls = 2
    /\ call.stage = "pipeline"
    /\ call.ret = None
    /\ call.w = Mono(20, 2)
    /\ lens = <<1, 2>>
    /\ window.samples = <<10, 20, 21>>
    /\ clock = FDiv(3, 16000)
    /\ last_speaker = "Speaker 0"

\* ---- C35 ----
\* the labels "Speaker N" process makes of the labels of the pipeline
ConcreteLabels == {"Speaker 0", "Speaker 1", "Speaker A"}
\* the last speaker is absent or a concrete label
LabelRemembered == last_speaker = None \/ last_speaker \in ConcreteLabels

\* C35: the last speaker of a StreamingDiarizer is never the sentinel: it
\* is absent or a label "Speaker N"; and once a call of process has
\* returned such a label, every later call returns a label "Speaker N" or
\* None, never the sentinel.
C35_SentinelNotRemembered ==
    /\ [](LabelRemembered /\ last_speaker # "Identifying...")
    /\ [](call.ret \in ConcreteLabels
            => [](call.ret # "Identifying..." /\ call.ret \in ConcreteLabels \cup {None}))

\* a third call with no speaker in its interval has returned the label
\* remembered from an earlier call
C35_Witness ==
    /\ ncalls = 3
    /\ call.stage = "done"
    /\ call.out.tracks = <<>>
    /\ call.ret = "Speaker A"
    /\ last_speaker = "Speaker A"

\* a first call with no speaker in its interval has returned the sentinel
\* and nothing is remembered
C35_SentinelWitness ==
    /\ ncalls = 1
    /\ call.stage = "done"
    /\ call.ret = "Identifying..."
    /\ last_speaker = None

\* ---- C36 ----
\* the step handled a text frame whose JSON document is not an object
NotAnObject ==
    /\ ev'.op = "RecvText"
    /\ ev'.frame.json \notin {"malformed", "object"}
\* one error frame to the connection of the step, nothing to any other
OneConfigError ==
    outbox' = [outbox EXCEPT ![ev'.c] = Append(@, ErrorFrame("Invalid config data"))]

\* C36, as claimed: whenever a text frame carries JSON that is not an
\* object, one error frame "Invalid config data" goes to the originating
\* connection and nothing to any other, the language is unchanged, nothing
\* is broadcast and the session is receiving.
C36_NonObjectAsClaimed ==
    [][NotAnObject =>
          /\ OneConfigError
          /\ current_language' = current_language
          /\ bc' = bc
          /\ pc'[ev'.c] = "recv"]_vars

\* C36, amended: the same when the client's transport is open; when the
\* client has closed it, the send of the error frame raises, nothing is
\* delivered to anyone, and the session ends and leaves the registry.  The
\* language is unchanged and nothing is broadcast in both cases.
C36_NonObject ==
    [][NotAnObject =>
          /\ current_language' = current_language
          /\ bc' = bc
          /\ IF ~client_closed[ev'.c]
             THEN /\ OneConfigError
                  /\ pc'[ev'.c] = "recv"
                  /\ active_connections' = active_connections
                  /\ audio_buffer' = audio_buffer
             ELSE /\ outbox' = outbox
                  /\ pc'[ev'.c] \in {"done", "raised"}
                  /\ ev'.c \notin Range(active_connections')]_vars

\* with two connections registered, one has sent a JSON array: it alone
\* has the error frame, and it is receiving
C36_Witness ==
    /\ ev.op = "RecvText"
    /\ ev.frame.json = "array"
    /\ pc[ev.c] = "recv"
    /\ outbox[ev.c][Len(outbox[ev.c])] = ErrorFrame("Invalid config data")
    /\ \E x \in Range(active_connections) \ {ev.c} :
          /\ pc[x] = "recv"
          /\ ErrorFrame("Invalid config data") \notin Range(outbox[x])

\* ---- C37 ----
\* the step is a call of transcribe_tensor
CallsTranscriber ==
    /\ ev'.op = "RecvBytes"
    /\ ev'.res \notin {"buffered", "ValueError"}

Transcripts ==
    LET IsTranscript(f) == f.kind = "transcript"
    IN  SelectSeq(downstream, IsTranscript)
\* the place of the message numbered id among the messages received, or 0
PlaceReceived(id) ==
    IF \E k \in 1 .. Len(received) : received[k].id = id
    THEN CHOOSE k \in 1 .. Len(received) : received[k].id = id
    ELSE 0
\* the message is a transcription message with a non-empty text
TranscriptionWithText(m) ==
    m.json = "object" /\ m.type = "transcription" /\ m.text # None /\ m.text # ""
\* the step pushes the frame of the call of process_frame
PushesCurrent ==
    /\ Len(downstream') = Len(downstream) + 1
    /\ downstream'[Len(downstream')].kind # "transcript"

\* C38: every transcript pushed downstream carries the text of a message
\* received that is a transcription message with a non-empty text (so a
\* message of another type, with an empty text or with unparsable content
\* is never pushed); no message is pushed twice, and the transcripts are
\* pushed in the order their messages were received; the receive task is
\* still running after any message it has handled; and when process_frame
\* pushes its frame, every transcript that was queued when it was called
\* has been pushed.
C38_TranscriptDelivery ==
    /\ [](\A i \in 1 .. Len(Transcripts) :
            LET k == PlaceReceived(Transcripts[i].id)
            IN  /\ k > 0
                /\ TranscriptionWithText(received[k])
                /\ Transcripts[i].text = received[k].text
                /\ \A j \in (i + 1) .. Len(Transcripts) :
                       k < PlaceReceived(Transcripts[j].id))
    /\ [][/\ received' # received => task_state' = "running"
          /\ PushesCurrent =>
                /\ downstream'[Len(downstream')] = pf.frame
                /\ \A k \in 1 .. Len(pf.queued) :
                      \E i \in 1 .. Len(downstream) : downstream[i] = pf.queued[k]
         ]_<<clientVars, exceptClient>>

\* a transcript queued before an audio frame has been pushed before it, a
\* malformed message received during the call has gone unnoticed, and a
\* transcript received after it has been pushed after the frame
C38_Witness ==
    /\ task_state = "running"
    /\ Len(received) = 3
    /\ TranscriptionWithText(received[1])
    /\ received[2].json = "malformed"
    /\ TranscriptionWithText(received[3])
    /\ downstream = <<PipelineFrame("start", 1), TranscriptFrame(received[1]),
                      PipelineFrame("audio", 2), TranscriptFrame(received[3])>>

\* ---- C39 ----
\* the service holds neither task nor connection, the task is over and the
\* connection is closed
TornDown ==
    /\ _receive_task = None
    /\ _websocket = None
    /\ task_state # "running"
    /\ connection # "open"
\* the step is a call of _disconnect
Disconnects == teardown'.n = teardown.n + 1

\* C39: after any stop or cancel the receive task is over, the connection
\* is closed and _receive_task and _websocket are None, whatever state the
\* task was in; and a further call of _disconnect changes nothing.  It does
\* not hold when the task had ended with an exception: awaiting it raises
\* the exception again, and _disconnect is left before anything is cleared
\* or closed.
C39_Teardown ==
    /\ [](teardown.n > 0 => TornDown)
    /\ [][(Disconnects /\ teardown.n > 0) =>
             /\ teardown'.outcome = "returned"
             /\ UNCHANGED <<_receive_task, _websocket, task_state, connection>>
         ]_<<clientVars, exceptClient>>

\* What does hold of C39: the same, for a task that was running or had
\* returned when _disconnect was first called.
C39_TeardownUnlessFailed ==
    /\ []((teardown.n > 0 /\ teardown.task_before # "failed") =>
             (teardown.outcome = "returned" /\ TornDown))
    /\ [][(Disconnects /\ teardown.n > 0 /\ teardown.outcome = "returned") =>
             /\ teardown'.outcome = "returned"
             /\ UNCHANGED <<_receive_task, _websocket, task_state, connection>>
         ]_<<clientVars, exceptClient>>

\* _disconnect has been called twice, the first time with the task running
C39_Witness ==
    /\ teardown.n = 2
    /\ teardown.task_before = "none"
    /\ task_state = "cancelled"
    /\ connection = "closed"
    /\ TornDown

\* _disconnect has been called after the task ended with an exception: the
\* call raised, and the service still holds the task and the open connection
C39_FailedTaskWitness ==
    /\ teardown.n = 1
    /\ teardown.task_before = "failed"
    /\ teardown.outcome = "raised"
    /\ _receive_task # None
    /\ _websocket # None
    /\ connection = "open"

TypeOK ==
    /\ Range(active_connections) \subseteq Conns
    /\ current_language \in LanguageValues
    /\ \A c \in Conns : pc[c] \in {"idle", "done", "raised"} \cup Open
    /\ \A c \in Conns : audio_buffer[c] \in Nat
====
